---- MODULE Spec2Model ----
(***************************************************************************)
(* Model of the module loader of lune (crates/lune-std/src/globals/        *)
(* require.rs): reference resolution, the module cache, the table of       *)
(* pending loads and the completion channels of concurrent requires.       *)
(*                                                                         *)
(* Text is modelled as a sequence of letters.  The letters are "/", "@",   *)
(* "." and words ("p", "luau", "lune", ...) that stand for runs of         *)
(* characters containing none of "/", "@", ".".  Every test the code makes *)
(* on a string (starts_with, strip_prefix, find, slicing) is made on the   *)
(* sequence.                                                               *)
(***************************************************************************)
EXTENDS Integers, Sequences, FiniteSets, TLC

(***************************************************************************)
(* Bounds.                                                                 *)
(***************************************************************************)
\* number of require calls the root scripts make
MaxCalls == 3

\* the number of times a bundling run is made from one entry path
MaxRuns == 2

(***************************************************************************)
(* Strings.                                                                *)
(***************************************************************************)
\* Option<T>: the empty tuple is None, <<x>> is Some(x)
None == <<>>
Some(x) == <<x>>
IsSome(o) == o # <<>>
Unwrap(o) == o[1]

StartsWith(s, p) == Len(s) >= Len(p) /\ SubSeq(s, 1, Len(p)) = p

\* index of the first occurrence of letter ch in s, 0 when there is none
Find(s, ch) ==
  IF \E i \in 1..Len(s) : s[i] = ch
  THEN CHOOSE i \in 1..Len(s) : s[i] = ch /\ \A j \in 1..(i - 1) : s[j] # ch
  ELSE 0

\* s[from..] of Rust, with 1-based from
Tail_(s, from) == SubSeq(s, from, Len(s))

\* the pieces of s between "/" letters, empty pieces included
RECURSIVE SplitSlash(_)
SplitSlash(s) ==
  LET i == Find(s, "/")
  IN IF i = 0 THEN <<s>>
     ELSE <<SubSeq(s, 1, i - 1)>> \o SplitSlash(Tail_(s, i + 1))

RECURSIVE JoinSlash(_)
JoinSlash(cs) ==
  IF cs = <<>> THEN <<>>
  ELSE IF Len(cs) = 1 THEN cs[1]
  ELSE cs[1] \o <<"/">> \o JoinSlash(Tail(cs))

(***************************************************************************)
(* Paths (std::path::Path).  A path is its component list, as compared by  *)
(* PathBuf's Eq and Hash: abs tells whether it starts at the root, comps   *)
(* are the normal, "." and ".." components.                                *)
(***************************************************************************)
DOT == <<".">>
DOTDOT == <<".", ".">>

RECURSIVE DropInnerDots(_)
DropInnerDots(cs) ==
  IF cs = <<>> THEN <<>>
  ELSE IF cs[1] = <<>> \/ cs[1] = DOT THEN DropInnerDots(Tail(cs))
  ELSE <<cs[1]>> \o DropInnerDots(Tail(cs))

\* Path::new(s).components(): repeated separators and "." components vanish,
\* except a leading "." of a relative path
PathNew(s) ==
  LET ps == SplitSlash(s)
      isAbs == StartsWith(s, <<"/">>)
      lead == IF ~isAbs /\ ps[1] = DOT THEN <<DOT>> ELSE <<>>
  IN [abs |-> isAbs, comps |-> lead \o DropInnerDots(ps)]

\* Path::display / to_string_lossy
Display(p) ==
  IF p.abs THEN <<"/">> \o JoinSlash(p.comps) ELSE JoinSlash(p.comps)

\* Path::join
PathJoin(a, b) ==
  IF b.abs \/ (~a.abs /\ a.comps = <<>>) THEN b
  ELSE [abs |-> a.abs, comps |-> a.comps \o DropInnerDots(b.comps)]

\* Path::parent, which is None for the root and for the empty path
HasParent(p) == p.comps # <<>>
Parent(p) == [abs |-> p.abs, comps |-> SubSeq(p.comps, 1, Len(p.comps) - 1)]

Root == [abs |-> TRUE, comps |-> <<>>]

\* the directory d and the directories above it (PathBuf::pop until it fails)
Ancestors_(d) == {[abs |-> d.abs, comps |-> SubSeq(d.comps, 1, n)] : n \in 0..Len(d.comps)}

(***************************************************************************)
(* The file system the scripts run on.                                     *)
(*   /p/.luaurc      {"aliases": {"k": "s"}}                               *)
(*   /p/m.luau       root script                                           *)
(*   /p/a.luau       requires "./b"                                        *)
(*   /p/b.luau       requires "./a"                                        *)
(*   /p/s/.luaurc    {"aliases": {"u": ".."}}                              *)
(*   /p/s/n.luau     root script                                           *)
(*   /p/s/c.luau     requires nothing                                      *)
(*   /p/r            a script without extension, requires "@self/a"        *)
(*   /p/t.luau       requires "/q/x/g" and "b"                             *)
(*   /q/x/.luaurc    {"aliases": {"v": ".", "w": "g"}}                     *)
(*   /q/x/e.luau     requires "../y/d" and "@w"                            *)
(*   /q/x/g.luau     requires nothing                                      *)
(*   /q/y/.luaurc    {"aliases": {"w": "../x/e"}}                          *)
(*   /q/y/d.luau     requires "@v/g" and "@w"                              *)
(***************************************************************************)
P(cs) == [abs |-> TRUE, comps |-> cs]
LUAU == <<".", "luau">>
DirP == P(<< <<"p">> >>)
DirS == P(<< <<"p">>, <<"s">> >>)
FileA == P(<< <<"p">>, <<"a">> \o LUAU >>)
FileB == P(<< <<"p">>, <<"b">> \o LUAU >>)
FileC == P(<< <<"p">>, <<"s">>, <<"c">> \o LUAU >>)
FileM == P(<< <<"p">>, <<"m">> \o LUAU >>)
FileN == P(<< <<"p">>, <<"s">>, <<"n">> \o LUAU >>)

DirQ == P(<< <<"q">> >>)
DirX == P(<< <<"q">>, <<"x">> >>)
DirY == P(<< <<"q">>, <<"y">> >>)
FileR == P(<< <<"p">>, <<"r">> >>)
FileE == P(<< <<"q">>, <<"x">>, <<"e">> \o LUAU >>)
FileG == P(<< <<"q">>, <<"x">>, <<"g">> \o LUAU >>)
FileD == P(<< <<"q">>, <<"y">>, <<"d">> \o LUAU >>)
FileT == P(<< <<"p">>, <<"t">> \o LUAU >>)

Modules == {FileA, FileB, FileC}
Files == Modules \cup {FileM, FileN, FileR, FileE, FileG, FileD, FileT}
Dirs == {Root, DirP, DirS, DirQ, DirX, DirY}

\* the process's working directory
CWD == DirP

\* What the operating system does with a path handed to it: it walks the
\* directory tree from the root (the working directory for a relative path),
\* one component at a time.  The result is the place reached, None when a
\* component does not exist.
RECURSIVE Walk(_, _)
Walk(at, rest) ==
  IF rest = <<>> THEN Some(at)
  ELSE IF at \notin Dirs THEN None
  ELSE LET c == rest[1]
           child == [abs |-> TRUE, comps |-> Append(at.comps, c)]
       IN IF c = DOT \/ c = <<>> THEN Walk(at, Tail(rest))
          ELSE IF c = DOTDOT
          THEN Walk(IF at = Root THEN Root ELSE [abs |-> TRUE,
                      comps |-> SubSeq(at.comps, 1, Len(at.comps) - 1)], Tail(rest))
          ELSE IF child \in Files \cup Dirs THEN Walk(child, Tail(rest))
          ELSE None

FsLookup(p) == Walk(IF p.abs THEN Root ELSE CWD, p.comps)
\* Path::is_file, Path::is_dir
IsFile(p) == IsSome(FsLookup(p)) /\ Unwrap(FsLookup(p)) \in Files
IsDir(p) == IsSome(FsLookup(p)) /\ Unwrap(FsLookup(p)) \in Dirs

\* lune_utils::path::constants::FILE_EXTENSIONS
FILE_EXTENSIONS == << <<"luau">>, <<"lua">> >>
INIT == <<"init">>

\* path_clean on a component list: "." vanishes, ".." removes the component
\* before it, stays at the root of an absolute path and is kept at the start
\* of a relative one
RECURSIVE CleanComps(_, _, _)
CleanComps(isAbs, done, rest) ==
  IF rest = <<>> THEN done
  ELSE LET c == rest[1]
           n == Len(done)
       IN IF c = DOT \/ c = <<>> THEN CleanComps(isAbs, done, Tail(rest))
          ELSE IF c = DOTDOT
          THEN IF n > 0 /\ done[n] # DOTDOT
               THEN CleanComps(isAbs, SubSeq(done, 1, n - 1), Tail(rest))
               ELSE IF isAbs THEN CleanComps(isAbs, done, Tail(rest))
               ELSE CleanComps(isAbs, Append(done, c), Tail(rest))
          ELSE CleanComps(isAbs, Append(done, c), Tail(rest))

clean_path(p) == [abs |-> p.abs, comps |-> CleanComps(p.abs, <<>>, p.comps)]

clean_path_and_make_absolute(p) ==
  IF p.abs THEN clean_path(p) ELSE clean_path(PathJoin(CWD, p))

relative_path_normalize(p) ==
  LET c == clean_path(p)
  IN IF c.comps = <<>> \/ c.comps[1] # DOTDOT
     THEN [abs |-> FALSE, comps |-> <<DOT>> \o c.comps]
     ELSE c

\* the name of p with "." ext appended
AppendExtension(p, ext) ==
  LET n == Len(p.comps)
  IN [abs |-> p.abs,
      comps |-> SubSeq(p.comps, 1, n - 1) \o <<p.comps[n] \o <<".">> \o ext>>]

\* the first of FILE_EXTENSIONS that is in the set oks
FirstExt(oks) ==
  IF \E i \in 1..Len(FILE_EXTENSIONS) : FILE_EXTENSIONS[i] \in oks
  THEN Some(FILE_EXTENSIONS[CHOOSE i \in 1..Len(FILE_EXTENSIONS) :
              /\ FILE_EXTENSIONS[i] \in oks
              /\ \A j \in 1..(i - 1) : FILE_EXTENSIONS[j] \notin oks])
  ELSE None

\* LuauModulePath::resolve followed by target().as_file(): the file a cleaned
\* absolute path stands for.  tag is "File", "Directory" (a directory without
\* index file) or "NotFound".
LuauModulePath_resolve(p) ==
  LET asFile(e) == p.comps # <<>> /\ IsFile(AppendExtension(p, e))
      asInit(e) == IsFile(AppendExtension(PathJoin(p, [abs |-> FALSE, comps |-> <<INIT>>]), e))
      exts == {FILE_EXTENSIONS[i] : i \in 1..Len(FILE_EXTENSIONS)}
      fe == FirstExt({e \in exts : asFile(e)})
      ie == FirstExt({e \in exts : asInit(e)})
  IN IF IsFile(p) THEN [tag |-> "File", path |-> p]
     ELSE IF IsSome(fe) THEN [tag |-> "File", path |-> AppendExtension(p, Unwrap(fe))]
     ELSE IF IsDir(p)
     THEN IF IsSome(ie)
          THEN [tag |-> "File",
                path |-> AppendExtension(
                           PathJoin(p, [abs |-> FALSE, comps |-> <<INIT>>]), Unwrap(ie))]
          ELSE [tag |-> "Directory", path |-> p]
     ELSE [tag |-> "NotFound", path |-> p]

(***************************************************************************)
(* Configuration files and aliases.                                        *)
(***************************************************************************)
\* read_luaurc: the alias table of the directory's .luaurc, None without one.
\* A table is a set of <<name, value>> pairs.
read_luaurc(dir) ==
  IF dir = DirP THEN Some({<< <<"k">>, <<"s">> >>})
  ELSE IF dir = DirS THEN Some({<< <<"u">>, <<".", ".">> >>})
  ELSE IF dir = DirX THEN Some({<< <<"v">>, <<".">> >>, << <<"w">>, <<"g">> >>})
  ELSE IF dir = DirY
  THEN Some({<< <<"w">>, <<".", ".", "/", "x", "/", "e">> >>})
  ELSE None

\* config.aliases.get(name)
AliasesGet(config, name) ==
  IF \E e \in config : e[1] = name
  THEN Some((CHOOSE e \in config : e[1] = name)[2])
  ELSE None

\* the directory a declared alias value is joined to: the directory of the
\* declaring configuration file
AliasBase(search_dir, caller_dir) == search_dir

\* the loop of resolve_alias from search_dir upward; read collects the
\* directories whose configuration file was looked for
RECURSIVE AliasSearch(_, _, _, _, _)
AliasSearch(alias_name, rest, caller_dir, search_dir, read) ==
  LET config == read_luaurc(search_dir)
      alias_value == IF IsSome(config) THEN AliasesGet(Unwrap(config), alias_name)
                     ELSE None
      joined == PathJoin(AliasBase(search_dir, caller_dir), PathNew(Unwrap(alias_value)))
      resolved == IF IsSome(rest) THEN PathJoin(joined, PathNew(Unwrap(rest)))
                  ELSE joined
      read2 == read \cup {search_dir}
  IN IF IsSome(alias_value)
     THEN [path |-> Some(clean_path_and_make_absolute(resolved)), read |-> read2]
     ELSE IF HasParent(search_dir)
     THEN AliasSearch(alias_name, rest, caller_dir, Parent(search_dir), read2)
     ELSE [path |-> None, read |-> read2]

resolve_alias(alias, caller_dir) ==
  IF ~StartsWith(alias, <<"@">>) THEN [path |-> None, read |-> {}]
  ELSE
    LET alias_path == Tail_(alias, 2)
        idx == Find(alias_path, "/")
        alias_name == IF idx # 0 THEN SubSeq(alias_path, 1, idx - 1) ELSE alias_path
        rest == IF idx # 0 THEN Some(Tail_(alias_path, idx + 1)) ELSE None
    IN IF alias_name = <<"lune">> THEN [path |-> None, read |-> {}]
       ELSE IF alias_name = <<"self">>
       THEN [path |-> Some(clean_path_and_make_absolute(
                        IF IsSome(rest) THEN PathJoin(caller_dir, PathNew(Unwrap(rest)))
                        ELSE caller_dir)),
             read |-> {}]
       ELSE AliasSearch(alias_name, rest, caller_dir, caller_dir, {})

(***************************************************************************)
(* resolve_require_arg.  An argument is a string [t |-> "String", s |-> _], *)
(* a script reference [t |-> "Script", path |-> _] whose path is None when *)
(* the reference is dynamic, or a value of another type [t |-> "Other"].   *)
(***************************************************************************)
\* ScriptReference::path_string
path_string(ref) ==
  IF IsSome(ref.path) THEN Display(Unwrap(ref.path)) ELSE <<"[dynamic]">>

ERR_FORM == "require path must start with './', '../', '/', or '@'"
ERR_TYPE == "require expects a string or ScriptReference"

\* resolve_require_arg as it would be if a string of no accepted form were
\* taken as a path relative to the caller
resolve_require_arg_bare(arg, caller_path) ==
  IF arg.t = "String" THEN
    IF StartsWith(arg.s, <<"@">>) THEN [tag |-> "Alias", alias |-> arg.s]
    ELSE [tag |-> "FilePath",
          abs |-> clean_path_and_make_absolute(
                    IF StartsWith(arg.s, <<"/">>) \/ ~IsSome(caller_path)
                    THEN PathNew(arg.s)
                    ELSE PathJoin(Parent(Unwrap(caller_path)), PathNew(arg.s)))]
  ELSE IF arg.t = "Script"
  THEN [tag |-> "FilePath", abs |-> PathNew(path_string(arg))]
  ELSE [tag |-> "Err", err |-> ERR_TYPE]

resolve_require_arg(arg, caller_path) ==
  IF arg.t = "String" THEN
    LET path_str == arg.s IN
    IF StartsWith(path_str, <<"/">>)
    THEN [tag |-> "FilePath", abs |-> clean_path_and_make_absolute(PathNew(path_str))]
    ELSE IF StartsWith(path_str, <<".", "/">>) \/ StartsWith(path_str, <<".", ".", "/">>)
    THEN LET rel == relative_path_normalize(PathNew(path_str))
         IN [tag |-> "FilePath",
             abs |-> IF IsSome(caller_path)
                     THEN LET cp == Unwrap(caller_path)
                              caller_dir == IF HasParent(cp) THEN Parent(cp) ELSE cp
                          IN clean_path_and_make_absolute(PathJoin(caller_dir, rel))
                     ELSE clean_path_and_make_absolute(rel)]
    ELSE IF StartsWith(path_str, <<"@">>)
    THEN [tag |-> "Alias", alias |-> path_str]
    ELSE [tag |-> "Err", err |-> ERR_FORM]
  ELSE IF arg.t = "Script"
  THEN [tag |-> "FilePath", abs |-> PathNew(path_string(arg))]
  ELSE [tag |-> "Err", err |-> ERR_TYPE]

(***************************************************************************)
(* Script threads.  A thread is named by the path its chunk name carries   *)
(* (get_caller_path); Anon is a chunk whose name carries no path.  Root    *)
(* scripts are started by the host, module threads by the loader.          *)
(***************************************************************************)
Anon == [abs |-> FALSE, comps |-> << <<"stdin">> >>]
Roots == {FileM, FileN, Anon}
Threads == Roots \cup Modules

get_caller_path(t) == IF t = Anon THEN None ELSE Some(t)

Str(s) == [t |-> "String", s |-> s]

\* a ScriptReference: ScriptReference::new(path) for Some(path), the global
\* script made by ScriptReference::dynamic() for None
ScriptRef(path) == [t |-> "Script", path |-> path]

\* the require calls in the source of each script
RootArgs(t) ==
  IF t = FileM THEN { Str(<<".", "/", "a">>),
                      Str(<<"@", "k", "/", "c">>),
                      Str(<<"a", "/", "b">>),
                      ScriptRef(None) }
  ELSE IF t = FileN THEN { Str(<<".", ".", "/", "s", "/", "c">>),
                           Str(<<"@", "k", "/", "c">>),
                           Str(<<"@", "lune", "/", "zz">>) }
  ELSE { Str(<<"/", "p", "/", "s", "/", ".", "/", "c", ".", "luau">>),
         Str(<<"@", "zz", "/", "c">>),
         Str(<<"@", "lune", "/", "fs">>),
         ScriptRef(Some(FileC)) }

Deps(m) ==
  IF m = FileA THEN << Str(<<".", "/", "b">>) >>
  ELSE IF m = FileB THEN << Str(<<".", "/", "a">>) >>
  ELSE <<>>

\* what a module's top-level code can end with: the number and kind of the
\* values it returns, or an error it throws
Shapes(m) == IF m = FileC THEN {"none", "nil", "one", "two", "throw"} ELSE {"one"}

(***************************************************************************)
(* Values and results (LuaValue, RequireResult).                           *)
(***************************************************************************)
\* the i-th value made by execution n of the code named by src
V(src, n, i) == [src |-> src, n |-> n, i |-> i]
NilV == V("nil", 0, 0)
NoErr == [kind |-> "", of |-> <<>>, n |-> 0]
Ok(vals) == [ok |-> TRUE, vals |-> vals, err |-> NoErr]
Err(kind, of, n) == [ok |-> FALSE, vals |-> <<>>, err |-> [kind |-> kind, of |-> of, n |-> n]]
NoResult == Err("", <<>>, 0)

\* registered_modules.get(module_key)
RegisteredGet(module_key) ==
  IF module_key = <<"@", "lune", "/", "fs">> THEN V("builtin fs", 0, 0) ELSE NilV

VARIABLES
  cache,    \* the module cache table: cache key -> first value, NilV when absent
  pending,  \* RequireState.tx / rx: resolved path -> channel, 0 when absent
  chans,    \* the channels created so far
  call,     \* the require call of each thread
  nreq,     \* number of require calls the root scripts have made
  mod,      \* the scheduler's module threads
  execs,    \* history: number of executions of each module's top-level code
  succ,     \* history: an execution of the module has completed successfully
  script_path_stack,  \* the registry table __lune_script_path_stack (script.rs)
  caller_path_key     \* the registry value __lune_require_caller_path

vars == <<cache, pending, chans, call, nreq, mod, execs, succ, script_path_stack,
          caller_path_key>>

VARIABLES
  bundler,  \* the Bundler of one packaging run (cli/build/bundler.rs)
  codec,    \* one use of the metadata codec (standalone/metadata.rs)
  build     \* one run of the build command (cli/build/mod.rs)

\* the state of a component that is not running
Off == [pc |-> "off"]

others == <<bundler, codec, build>>

\* script::get_current_script_path: the last path of the stack, None when
\* the stack is empty.  The stack is made empty by script::create; require_fn
\* runs a module (push_thread_back, wait_for_thread) without a call of
\* push_script_path or pop_script_path, so no step of a load changes it.
get_current_script_path(stack) ==
  IF Len(stack) > 0 THEN Some(stack[Len(stack)]) ELSE None

IdleCall == [pc |-> "idle", arg |-> [t |-> "Other"], key |-> None, via |-> "",
             chan |-> 0, res |-> NoResult, read |-> {}, conc |-> FALSE]
NoThread == [st |-> "none", ip |-> 0, result |-> NoResult]

Init ==
  /\ cache = [m \in Files |-> NilV]
  /\ pending = [m \in Files |-> 0]
  /\ chans = <<>>
  /\ call = [t \in Threads |-> IdleCall]
  /\ nreq = 0
  /\ mod = [m \in Files |-> NoThread]
  /\ execs = [m \in Files |-> 0]
  /\ succ = [m \in Files |-> FALSE]
  /\ script_path_stack = <<>>
  /\ caller_path_key = None
  /\ bundler = Off /\ codec = Off /\ build = Off

(***************************************************************************)
(* RequireState and the channels (async_channel::bounded(1)).              *)
(***************************************************************************)
\* a channel: buf holds the messages sent and not yet received, closed is
\* set by close().  History: key is the path the channel was created for,
\* nsub the number of receivers cloned by get_pending, live whether the call
\* that created it is still running, ret the result that call returned, e0
\* the number of executions of the module before the channel was created.
\* the channel as it would be if it were created closed
NewChan_closed(path) == [key |-> Some(path), buf |-> <<>>, closed |-> TRUE,
                         nsub |-> 0, live |-> TRUE, ret |-> None, e0 |-> execs[path]]

NewChan(path) == [key |-> Some(path), buf |-> <<>>, closed |-> FALSE,
                  nsub |-> 0, live |-> TRUE, ret |-> None, e0 |-> execs[path]]

\* a channel all of whose senders and receivers are dropped
Dropped == [key |-> None, buf |-> <<>>, closed |-> TRUE,
            nsub |-> 0, live |-> FALSE, ret |-> None, e0 |-> 0]

\* the channels chs without those that neither the table tbl nor a waiting
\* call of cl refers to
RECURSIVE Trim(_)
Trim(chs) ==
  IF chs # <<>> /\ chs[Len(chs)] = Dropped THEN Trim(SubSeq(chs, 1, Len(chs) - 1))
  ELSE chs

Collect(chs, tbl, cl) ==
  Trim([i \in 1..Len(chs) |->
         IF \/ \E m \in Files : tbl[m] = i
            \/ \E t \in Threads : cl[t].pc \in {"read", "wait", "recv"} /\ cl[t].chan = i
         THEN chs[i] ELSE Dropped])

\* the place of a new channel
FreeChan(chs) ==
  IF \E i \in 1..Len(chs) : chs[i] = Dropped
  THEN CHOOSE i \in 1..Len(chs) : chs[i] = Dropped /\ \A j \in 1..(i - 1) : chs[j] # Dropped
  ELSE Len(chs) + 1

PutChan(chs, i, ch) ==
  IF i = Len(chs) + 1 THEN Append(chs, ch) ELSE [chs EXCEPT ![i] = ch]

\* RequireState::get_pending: the channel of the path, 0 for None
get_pending(rx, path) == rx[path]

\* RequireState::create_pending, the table after the insert of channel ch
create_pending(tx, path, ch) == [tx EXCEPT ![path] = ch]

\* remove_pending as it would be if the entry were kept
remove_pending_keep(tx, path) == tx

\* RequireState::remove_pending
remove_pending(tx, path) == [tx EXCEPT ![path] = 0]

\* the cache check as it would be if it never hit
CacheGet_miss(tbl, cache_key) == None

\* cache.get(cache_key) followed by the is_nil test: Some(value) on a hit
CacheGet(tbl, cache_key) ==
  IF tbl[cache_key] # NilV THEN Some(tbl[cache_key]) ELSE None

\* the cache population as it would be if a failure were stored as well
CacheSet_failures(tbl, cache_key, result) ==
  IF result.ok /\ result.vals # <<>>
  THEN [tbl EXCEPT ![cache_key] = result.vals[1]]
  ELSE [tbl EXCEPT ![cache_key] = V(result.err.kind, result.err.n, 0)]

\* the value stored by the cache population: the first value of a successful
\* result; setting a table field to nil leaves it absent
CacheSet(tbl, cache_key, result) ==
  IF result.ok /\ result.vals # <<>>
  THEN [tbl EXCEPT ![cache_key] = result.vals[1]]
  ELSE tbl

\* tx.send(result.clone()) and tx.close() on the channel
SendAndClose(ch, result) == [ch EXCEPT !.buf = Append(@, result), !.closed = TRUE]

(***************************************************************************)
(* require_fn up to its first suspension point.  The outcome tells how the *)
(* call goes on: via is "err" (fails at once), "builtin", "cache" (returns *)
(* at once), "sub" (waits on the channel of a pending load) or "load"      *)
(* (registers a pending entry and reads the file).                         *)
(***************************************************************************)
Outcome(via, key, chan, res, read) ==
  [via |-> via, key |-> key, chan |-> chan, res |-> res, read |-> read]

\* the checks as they would be if one lock covered all loads: a call that
\* finds any load pending waits for it
CheckTables_one_lock(resolved, absolute_path, read, cached, rx) ==
  IF resolved.tag = "NotFound"
  THEN Outcome("err", None, 0, Err("cannot find module", Display(absolute_path), 0), read)
  ELSE IF resolved.tag = "Directory"
  THEN Outcome("err", None, 0, Err("cannot require directory", Display(absolute_path), 0), read)
  ELSE IF IsSome(cached)
  THEN Outcome("cache", Some(resolved.path), 0, Ok(<<Unwrap(cached)>>), read)
  ELSE IF \E m \in Files : pending[m] # 0
  THEN Outcome("sub", Some(resolved.path),
               pending[CHOOSE m \in Files : pending[m] # 0], NoResult, read)
  ELSE Outcome("load", Some(resolved.path), 0, NoResult, read)

\* the cache check, the pending check and the choice to load, the same
\* code in the FilePath and in the Alias branch; resolved is what
\* LuauModulePath::resolve made of absolute_path
CheckTables(resolved, absolute_path, read, cached, rx) ==
  IF resolved.tag = "NotFound"
  THEN Outcome("err", None, 0, Err("cannot find module", Display(absolute_path), 0), read)
  ELSE IF resolved.tag = "Directory"
  THEN Outcome("err", None, 0, Err("cannot require directory", Display(absolute_path), 0), read)
  ELSE IF IsSome(cached)
  THEN Outcome("cache", Some(resolved.path), 0, Ok(<<Unwrap(cached)>>), read)
  ELSE IF rx # 0
  THEN Outcome("sub", Some(resolved.path), rx, NoResult, read)
  ELSE Outcome("load", Some(resolved.path), 0, NoResult, read)

\* the checks as they would be if the cache were not consulted
LoadResolved_uncached(resolved, absolute_path, read) ==
  CheckTables(resolved, absolute_path, read, None,
              IF resolved.tag = "File" THEN get_pending(pending, resolved.path) ELSE 0)

LoadResolved(resolved, absolute_path, read) ==
  CheckTables(resolved, absolute_path, read,
              IF resolved.tag = "File" THEN CacheGet(cache, resolved.path) ELSE None,
              IF resolved.tag = "File" THEN get_pending(pending, resolved.path) ELSE 0)

Load(absolute_path, read) ==
  LoadResolved(LuauModulePath_resolve(absolute_path), absolute_path, read)

LUNE_PREFIX == <<"@", "lune", "/">>

\* the lookup as it would be if a missing built-in module fell through to
\* the aliases of the configuration files
BuiltinValue_fallthrough(alias, value) ==
  IF value # NilV
  THEN Outcome("builtin", None, 0, Ok(<<value>>), {})
  ELSE Outcome("err", None, 0, Err("cannot find alias", alias, 0),
               AliasSearch(<<"lune">>, None, CWD, CWD, {}).read)

\* the lookup of a built-in module in the table of registered modules
BuiltinValue(alias, value) ==
  IF value # NilV
  THEN Outcome("builtin", None, 0, Ok(<<value>>), {})
  ELSE Outcome("err", None, 0, Err("cannot find built-in module", alias, 0), {})

Builtin(alias) ==
  BuiltinValue(alias, RegisteredGet(LUNE_PREFIX \o Tail_(alias, Len(LUNE_PREFIX) + 1)))

\* the outcome of an alias, ra being what resolve_alias made of it
AliasResolved(alias, ra) ==
  IF IsSome(ra.path) THEN Load(Unwrap(ra.path), ra.read)
  ELSE Outcome("err", None, 0, Err("cannot find alias", alias, 0), ra.read)

CallerDir(caller_path) ==
  IF IsSome(caller_path) /\ HasParent(Unwrap(caller_path))
  THEN Parent(Unwrap(caller_path)) ELSE CWD

\* the match on the result rr of resolve_require_arg
Dispatch(rr, caller_path) ==
  IF rr.tag = "Err" THEN Outcome("err", None, 0, Err(rr.err, <<>>, 0), {})
  ELSE IF rr.tag = "Alias"
  THEN IF StartsWith(rr.alias, LUNE_PREFIX) THEN Builtin(rr.alias)
       ELSE AliasResolved(rr.alias, resolve_alias(rr.alias, CallerDir(caller_path)))
  ELSE Load(rr.abs, {})

require_fn(arg, caller_path) ==
  Dispatch(resolve_require_arg(arg, caller_path), caller_path)

\* the effect of a call whose outcome is o; conc is history: a load of the
\* same path is in flight when the call arrives
Begin(t, arg, o) ==
  LET conc == /\ IsSome(o.key)
              /\ \E u \in Threads \ {t} :
                   call[u].pc \in {"read", "wait"} /\ call[u].key = o.key
      c == [pc |-> "done", arg |-> arg, key |-> o.key, via |-> o.via,
            chan |-> o.chan, res |-> o.res, read |-> o.read, conc |-> conc]
  IN IF o.via = "sub"
     THEN /\ call' = [call EXCEPT ![t] = [c EXCEPT !.pc = "recv"]]
          /\ chans' = [chans EXCEPT ![o.chan].nsub = @ + 1]
          /\ UNCHANGED pending
     ELSE IF o.via = "load"
     THEN /\ call' = [call EXCEPT ![t] = [c EXCEPT !.pc = "read", !.chan = FreeChan(chans)]]
          /\ chans' = PutChan(chans, FreeChan(chans), NewChan(Unwrap(o.key)))
          /\ pending' = create_pending(pending, Unwrap(o.key), FreeChan(chans))
     ELSE /\ call' = [call EXCEPT ![t] = c]
          /\ UNCHANGED <<chans, pending>>

\* capture_caller: the value the wrapper stores under CALLER_PATH_KEY
capture_caller(t) == get_caller_path(t)

\* require_fn's caller path: the stored value, or else the stack's
read_caller_path(stored, t) ==
  IF IsSome(stored) THEN stored ELSE get_caller_path(t)

\* the stored value after require_fn has set it to nil
clear_caller_path_kept(stored) == stored

clear_caller_path(stored) == None

\* thread t calls require(arg).  The wrapper calls capture_caller, a function
\* that does not yield, and then the async function, whose first poll is made
\* by the call itself: it reads and clears the stored path and resolves the
\* argument before the first .await (read_file, recv), so the whole is one
\* step of thread t
Start(t, arg) ==
  LET stored == capture_caller(t)
  IN /\ Begin(t, arg, require_fn(arg, read_caller_path(stored, t)))
     /\ caller_path_key' = clear_caller_path(stored)

\* a root script calls require
Require(t) ==
  /\ t \in Roots
  /\ call[t].pc \in {"idle", "done"}
  /\ nreq < MaxCalls
  /\ \E arg \in RootArgs(t) : Start(t, arg)
  /\ nreq' = nreq + 1
  /\ UNCHANGED <<cache, mod, execs, succ>>
  /\ UNCHANGED <<script_path_stack, others>>

\* the top-level code of module m calls require
ModRequire(m) ==
  /\ mod[m].st = "run"
  /\ call[m].pc = "idle"
  /\ mod[m].ip <= Len(Deps(m))
  /\ Start(m, Deps(m)[mod[m].ip])
  /\ UNCHANGED <<cache, nreq, mod, execs, succ>>
  /\ UNCHANGED <<script_path_stack, others>>

\* the require call of module m's code has returned: the code goes on, or
\* ends with the error the call raised
ModResume(m) ==
  /\ mod[m].st = "run"
  /\ call[m].pc = "done"
  /\ call' = [call EXCEPT ![m] = IdleCall]
  /\ mod' = [mod EXCEPT ![m] =
               IF call[m].res.ok THEN [@ EXCEPT !.ip = @ + 1]
               ELSE [@ EXCEPT !.st = "fin", !.result = call[m].res]]
  /\ UNCHANGED <<cache, pending, chans, nreq, execs, succ>>
  /\ UNCHANGED <<script_path_stack, caller_path_key, others>>

ShapeResult(m, n, shape) ==
  CASE shape = "none" -> Ok(<<>>)
    [] shape = "nil" -> Ok(<<NilV>>)
    [] shape = "one" -> Ok(<<V(Display(m), n, 1)>>)
    [] shape = "two" -> Ok(<<V(Display(m), n, 1), V(Display(m), n, 2)>>)
    [] OTHER -> Err("runtime", Display(m), n)

\* the top-level code of module m ends
ModReturn(m) ==
  /\ mod[m].st = "run"
  /\ call[m].pc = "idle"
  /\ mod[m].ip > Len(Deps(m))
  /\ \E shape \in Shapes(m) :
       LET result == ShapeResult(m, execs[m], shape)
       IN /\ mod' = [mod EXCEPT ![m] = [@ EXCEPT !.st = "fin", !.result = result]]
          /\ succ' = [succ EXCEPT ![m] = @ \/ result.ok]
  /\ UNCHANGED <<cache, pending, chans, call, nreq, execs>>
  /\ UNCHANGED <<script_path_stack, caller_path_key, others>>

\* read_file returns, and on success the chunk is pushed to the scheduler
ReadDone(t) ==
  /\ call[t].pc = "read"
  /\ LET resolved_path == Unwrap(call[t].key)
         end(result) ==
           /\ call' = [call EXCEPT ![t] = [@ EXCEPT !.pc = "done", !.chan = 0, !.res = result]]
           /\ chans' = Collect([chans EXCEPT ![call[t].chan] =
                                  [@ EXCEPT !.live = FALSE, !.ret = Some(result)]],
                               pending, call')
           /\ UNCHANGED <<mod, execs>>
     IN \E io \in {"ok", "read error", "syntax error"} :
          IF io = "read error"
          THEN end(Err("cannot read", Display(resolved_path), 0))
          ELSE IF io = "syntax error"
          THEN end(Err("syntax", Display(resolved_path), 0))
          ELSE /\ call' = [call EXCEPT ![t] = [@ EXCEPT !.pc = "wait"]]
               /\ mod' = [mod EXCEPT ![resolved_path] =
                            [st |-> "run", ip |-> 1, result |-> NoResult]]
               /\ execs' = [execs EXCEPT ![resolved_path] = @ + 1]
               /\ UNCHANGED chans
  /\ UNCHANGED <<cache, pending, nreq, succ>>
  /\ UNCHANGED <<script_path_stack, caller_path_key, others>>

\* wait_for_thread returns: the result is cached, sent to the channel and
\* returned, and the pending entry is removed
FinishLoad(t) ==
  /\ call[t].pc = "wait"
  /\ mod[Unwrap(call[t].key)].st = "fin"
  /\ LET resolved_path == Unwrap(call[t].key)
         result == mod[resolved_path].result
     IN /\ cache' = CacheSet(cache, resolved_path, result)
        /\ pending' = remove_pending(pending, resolved_path)
        /\ call' = [call EXCEPT ![t] = [@ EXCEPT !.pc = "done", !.chan = 0, !.res = result]]
        /\ chans' = Collect([chans EXCEPT ![call[t].chan] =
                               [SendAndClose(@, result) EXCEPT !.live = FALSE,
                                                               !.ret = Some(result)]],
                            pending', call')
        /\ mod' = [mod EXCEPT ![resolved_path] = NoThread]
  /\ UNCHANGED <<nreq, execs, succ>>
  /\ UNCHANGED <<script_path_stack, caller_path_key, others>>

\* rx.recv() of a subscribed call returns: a message of the channel, or the
\* error of a closed and empty channel
Recv(t) ==
  /\ call[t].pc = "recv"
  /\ LET ch == chans[call[t].chan]
     IN \/ /\ ch.buf # <<>>
           /\ call' = [call EXCEPT ![t] =
                         [@ EXCEPT !.pc = "done", !.chan = 0, !.res = Head(ch.buf)]]
           /\ chans' = Collect([chans EXCEPT ![call[t].chan].buf = Tail(@)], pending, call')
        \/ /\ ch.buf = <<>>
           /\ ch.closed
           /\ call' = [call EXCEPT ![t] =
                         [@ EXCEPT !.pc = "done", !.chan = 0,
                                   !.res = Err("require interrupted", <<>>, 0)]]
           /\ chans' = Collect(chans, pending, call')
  /\ UNCHANGED <<cache, pending, nreq, mod, execs, succ>>
  /\ UNCHANGED <<script_path_stack, caller_path_key, others>>

Next ==
  \/ \E t \in Roots : Require(t)
  \/ \E m \in Files : ModRequire(m)
  \/ \E m \in Files : ModResume(m)
  \/ \E m \in Files : ModReturn(m)
  \/ \E t \in Threads : ReadDone(t)
  \/ \E t \in Threads : FinishLoad(t)
  \/ \E t \in Threads : Recv(t)

Spec == Init /\ [][Next]_<<vars, others>>

(***************************************************************************)
(* The bundler (cli/build/bundler.rs).                                     *)
(***************************************************************************)
\* the strings that require_regex captures in the source of a file, in the
\* order of the text
Source(f) ==
  IF f = FileM THEN << <<".", "/", "a">>, <<"@", "k", "/", "c">>, <<"a", "/", "b">> >>
  ELSE IF f = FileN THEN << <<".", ".", "/", "s", "/", "c">>, <<"@", "k", "/", "c">>,
                            <<"@", "lune", "/", "zz">> >>
  ELSE IF f = FileA THEN << <<".", "/", "b">> >>
  ELSE IF f = FileB THEN << <<".", "/", "a">> >>
  ELSE IF f = FileE THEN << <<".", ".", "/", "y", "/", "d">>, <<"@", "w">> >>
  ELSE IF f = FileD THEN << <<"@", "v", "/", "g">>, <<"@", "w">> >>
  ELSE IF f = FileT THEN << <<"/", "q", "/", "x", "/", "g">>, <<"b">> >>
  ELSE IF f = FileR THEN << <<"@", "self", "/", "a">> >>
  ELSE <<>>

\* Path::canonicalize, None when the path does not exist
canonicalize(p) == FsLookup(p)

\* Path::starts_with, for absolute paths
PathStartsWith(p, base) ==
  Len(p.comps) >= Len(base.comps) /\ SubSeq(p.comps, 1, Len(base.comps)) = base.comps

\* Path::strip_prefix
strip_prefix(p, base) ==
  [abs |-> FALSE, comps |-> SubSeq(p.comps, Len(base.comps) + 1, Len(p.comps))]

\* index of the last "." of a file name that separates stem and extension,
\* 0 when the name has no extension
ExtDot(name) ==
  LET dots == {i \in 2..Len(name) : name[i] = "."}
  IN IF dots = {} THEN 0 ELSE CHOOSE i \in dots : \A j \in dots : j <= i

\* Path::with_extension
with_extension(p, ext) ==
  IF p.comps = <<>> \/ p.comps[Len(p.comps)] \in {DOT, DOTDOT} THEN p
  ELSE LET n == Len(p.comps)
           name == p.comps[n]
           stem == IF ExtDot(name) = 0 THEN name ELSE SubSeq(name, 1, ExtDot(name) - 1)
       IN [abs |-> p.abs,
           comps |-> SubSeq(p.comps, 1, n - 1) \o
                     <<IF ext = <<>> THEN stem ELSE stem \o <<".">> \o ext>>]

Rel(cs) == [abs |-> FALSE, comps |-> cs]

\* Bundler::find_project_root: the highest directory at or above the entry
\* file's directory that has a configuration file, else that directory
find_project_root(entry_path) ==
  LET start_dir == Parent(Unwrap(canonicalize(entry_path)))
      with == {d \in Ancestors_(start_dir) : IsSome(read_luaurc(d))}
  IN IF with = {} THEN start_dir
     ELSE CHOOSE d \in with : \A e \in with : Len(d.comps) <= Len(e.comps)

\* Bundler::common_ancestor
common_ancestor(path1, path2) ==
  LET n == IF Len(path1.comps) < Len(path2.comps) THEN Len(path1.comps)
           ELSE Len(path2.comps)
      same == {k \in 0..n : SubSeq(path1.comps, 1, k) = SubSeq(path2.comps, 1, k)}
  IN [abs |-> TRUE, comps |-> SubSeq(path1.comps, 1, CHOOSE k \in same : \A j \in same : j <= k)]

\* the root is kept whatever the path
expand_base_dir_keep(base_dir, path) == base_dir

\* Bundler::expand_base_dir, the new base_dir
expand_base_dir(base_dir, path) ==
  LET canonical == IF IsSome(canonicalize(path)) THEN Unwrap(canonicalize(path)) ELSE path
  IN IF ~PathStartsWith(canonical, base_dir) THEN common_ancestor(base_dir, canonical)
     ELSE base_dir

\* Bundler::normalize_path
normalize_path(base_dir, path) ==
  LET canonical == IF IsSome(canonicalize(path)) THEN Unwrap(canonicalize(path)) ELSE path
  IN IF PathStartsWith(canonical, base_dir)
     THEN <<"/">> \o Display(strip_prefix(canonical, base_dir))
     ELSE Display(canonical)

\* Bundler::find_module_file
find_module_file(path) ==
  LET luau == with_extension(path, <<"luau">>)
      lua == with_extension(path, <<"lua">>)
      init == PathJoin(path, Rel(<< <<"init", ".", "luau">> >>))
      init_lua == PathJoin(path, Rel(<< <<"init", ".", "lua">> >>))
  IN IF IsFile(path) THEN Some(path)
     ELSE IF IsFile(luau) THEN Some(luau)
     ELSE IF IsFile(lua) THEN Some(lua)
     ELSE IF IsDir(path) /\ IsFile(init) THEN Some(init)
     ELSE IF IsDir(path) /\ IsFile(init_lua) THEN Some(init_lua)
     ELSE IF IsFile(init) THEN Some(init)
     ELSE None

\* the configuration file of a directory as fs::read_to_string finds it
LoadConfig(dir) ==
  IF IsDir(dir) THEN read_luaurc(Unwrap(FsLookup(dir))) ELSE None

\* Bundler::get_config: the configuration of dir, from the cache configs (a
\* set of <<directory, configuration>> pairs) when it is there
get_config(configs, dir) ==
  IF \E e \in configs : e[1] = dir
  THEN [config |-> (CHOOSE e \in configs : e[1] = dir)[2], configs |-> configs]
  ELSE [config |-> LoadConfig(dir), configs |-> configs \cup {<<dir, LoadConfig(dir)>>}]

\* the insert of a key into a map held as a set of <<key, value>> pairs
MapInsert(map, k, v) == {e \in map : e[1] # k} \cup {<<k, v>>}

\* the loop of Bundler::resolve_alias from search_dir upward; the result is
\* the path, the configuration cache and the alias map
RECURSIVE Bundler_AliasSearch(_, _, _, _, _, _)
Bundler_AliasSearch(alias_path, alias_name, rest, search_dir, configs, aliases) ==
  LET got == get_config(configs, search_dir)
      alias_value == IF IsSome(got.config) THEN AliasesGet(Unwrap(got.config), alias_name)
                     ELSE None
      joined == PathJoin(search_dir, PathNew(Unwrap(alias_value)))
      resolved == IF IsSome(rest) THEN PathJoin(joined, PathNew(Unwrap(rest))) ELSE joined
      actual_file == find_module_file(resolved)
  IN IF IsSome(alias_value)
     THEN [path |-> Some(resolved), configs |-> got.configs,
           aliases |-> IF IsSome(actual_file)
                       THEN MapInsert(aliases, <<"@">> \o alias_path,
                                      Unwrap(canonicalize(Unwrap(actual_file))))
                       ELSE aliases]
     ELSE IF HasParent(search_dir)
     THEN Bundler_AliasSearch(alias_path, alias_name, rest, Parent(search_dir),
                              got.configs, aliases)
     ELSE [path |-> None, configs |-> got.configs, aliases |-> aliases]

\* Bundler::resolve_alias
Bundler_resolve_alias(alias, caller_dir, configs, aliases) ==
  LET alias_path == Tail_(alias, 2)
      idx == Find(alias_path, "/")
      alias_name == IF idx # 0 THEN SubSeq(alias_path, 1, idx - 1) ELSE alias_path
      rest == IF idx # 0 THEN Some(Tail_(alias_path, idx + 1)) ELSE None
  IN IF alias_name = <<"self">>
     THEN [path |-> Some(IF IsSome(rest) THEN PathJoin(caller_dir, PathNew(Unwrap(rest)))
                         ELSE caller_dir),
           configs |-> configs, aliases |-> aliases]
     ELSE Bundler_AliasSearch(alias_path, alias_name, rest, caller_dir, configs, aliases)

\* Bundler::resolve_require
resolve_require(require_path, caller_dir, configs, aliases) ==
  IF StartsWith(require_path, <<"@">>)
  THEN Bundler_resolve_alias(require_path, caller_dir, configs, aliases)
  ELSE [path |-> Some(IF StartsWith(require_path, <<"/">>) THEN PathNew(require_path)
                      ELSE PathJoin(caller_dir, PathNew(require_path))),
        configs |-> configs, aliases |-> aliases]

\* the captured strings as they would be without the filter
require_paths_unfiltered(caps) == caps

\* the filter of process_file: the captured strings of the built-in namespace
\* are left out
RECURSIVE require_paths(_)
require_paths(caps) ==
  IF caps = <<>> THEN <<>>
  ELSE IF StartsWith(caps[1], LUNE_PREFIX) THEN require_paths(Tail(caps))
  ELSE <<caps[1]>> \o require_paths(Tail(caps))

\* a call of process_file that has not yet run
Frame(file_path) == [file_path |-> file_path, entered |-> FALSE, reqs |-> <<>>]

\* the paths BuildCommand::run can hand to the bundler: entry files as the
\* user spells them, relative to the working directory or absolute
BundleEntries ==
  { PathNew(<<"m", ".", "luau">>),
    PathNew(<<"/", "p", "/", "m", ".", "luau">>),
    PathNew(<<"s", "/", "n", ".", "luau">>),
    PathNew(<<"/", "p", "/", "s", "/", ".", ".", "/", "s", "/", "n", ".", "luau">>),
    PathNew(<<".", "/", "a", ".", "luau">>),
    PathNew(<<"r">>),
    PathNew(<<"/", "q", "/", "x", "/", "e", ".", "luau">>),
    PathNew(<<".", ".", "/", "q", "/", "x", "/", "e", ".", "luau">>),
    PathNew(<<"/", "q", "/", "y", "/", "d", ".", "luau">>),
    PathNew(<<"t", ".", "luau">>) }

\* the Bundler as it would be if a later run kept the visited set of the
\* run before it
Bundler_new_reused(entry_path) ==
  [pc |-> "run", entry |-> entry_path,
   base_dir |-> find_project_root(entry_path),
   configs |-> {},
   processed |-> IF bundler = Off THEN {} ELSE bundler.processed,
   files_canonical |-> {},
   aliases_canonical |-> {}, stack |-> <<Frame(entry_path)>>,
   files |-> {}, aliases |-> {},
   reads |-> [f \in Files |-> 0], revisits |-> {}, err |-> None,
   last |-> [caller_dir |-> Root, alias |-> <<>>, path |-> None],
   run |-> 1, first |-> None]

\* Bundler::new, at the call of bundle(entry_path).  History: run is the
\* number of the run, first the bundle an earlier run from the same entry
\* path returned.
Bundler_new(entry_path) ==
  [pc |-> "run", entry |-> entry_path,
   base_dir |-> find_project_root(entry_path),
   configs |-> {}, processed |-> {}, files_canonical |-> {},
   aliases_canonical |-> {}, stack |-> <<Frame(entry_path)>>,
   files |-> {}, aliases |-> {},
   reads |-> [f \in Files |-> 0], revisits |-> {}, err |-> None,
   last |-> [caller_dir |-> Root, alias |-> <<>>, path |-> None],
   run |-> 1, first |-> None]

\* what bundle() and base_dir() hand to BuildCommand::run
BundleResult(b) == [files |-> b.files, aliases |-> b.aliases, base_dir |-> b.base_dir]

\* Bundler::new and the call of bundle(entry_path)
BundleNew(entry_path) ==
  /\ bundler = Off
  /\ bundler' = Bundler_new(entry_path)
  /\ UNCHANGED <<vars, codec, build>>

\* the run is made once more, from the same entry path on the same files,
\* with a new Bundler
BundleAgain ==
  /\ bundler.pc \in {"done", "failed"}
  /\ bundler.run < MaxRuns
  /\ bundler' = [Bundler_new(bundler.entry) EXCEPT
                   !.run = bundler.run + 1,
                   !.first = IF bundler.pc = "done" /\ bundler.first = None
                             THEN Some(BundleResult(bundler)) ELSE bundler.first]
  /\ UNCHANGED <<vars, codec, build>>

\* the end of bundle(): the keys and alias values are made relative to the
\* final base_dir
BundleFinish(b) ==
  [b EXCEPT !.pc = "done", !.stack = <<>>,
            !.files = {normalize_path(b.base_dir, f) : f \in b.files_canonical},
            !.aliases = {<<e[1], normalize_path(b.base_dir, e[2])>> : e \in b.aliases_canonical}]

\* the stack without its top frame: process_file returns Ok(())
BundlePop(b) ==
  IF Len(b.stack) = 1 THEN BundleFinish(b)
  ELSE [b EXCEPT !.stack = SubSeq(@, 1, Len(@) - 1)]

\* the test of process_file for a file it has already been called on
processed_contains_never(processed, canonical) == FALSE

processed_contains(processed, canonical) == canonical \in processed

\* the read error as it would be if the unreadable file were passed over
ReadError_skip(b, canonical, file_path) ==
  BundlePop([b EXCEPT !.processed = @ \cup {canonical},
                      !.base_dir = expand_base_dir(@, canonical)])

\* the read error as it would be if bundle() returned what it has so far
ReadError_partial(b, canonical, file_path) ==
  BundleFinish([b EXCEPT !.processed = @ \cup {canonical},
                         !.base_dir = expand_base_dir(@, canonical)])

\* fs::read fails in process_file: `?` returns the error, whose context names
\* file_path, from every process_file on the stack and from bundle()
ReadError(b, canonical, file_path) ==
  [b EXCEPT !.pc = "failed",
            !.processed = @ \cup {canonical},
            !.base_dir = expand_base_dir(@, canonical),
            !.err = Some(file_path)]

\* process_file up to the loop over the require paths
ProcessFile ==
  /\ bundler.pc = "run"
  /\ LET n == Len(bundler.stack)
         fr == bundler.stack[n]
         canonical == IF IsSome(canonicalize(fr.file_path))
                      THEN Unwrap(canonicalize(fr.file_path)) ELSE fr.file_path
     IN /\ ~fr.entered
        /\ IF processed_contains(bundler.processed, canonical)
           THEN bundler' = BundlePop([bundler EXCEPT !.revisits = @ \cup {canonical}])
           ELSE \E io \in {"ok", "read error"} :
                  IF io = "read error"
                  THEN bundler' = ReadError(bundler, canonical, fr.file_path)
                  ELSE bundler' = [bundler EXCEPT
                                     !.processed = @ \cup {canonical},
                                     !.base_dir = expand_base_dir(@, canonical),
                                     !.files_canonical = @ \cup {canonical},
                                     !.reads[canonical] = @ + 1,
                                     !.stack[n] = [fr EXCEPT
                                        !.entered = TRUE,
                                        !.reqs = require_paths(Source(canonical))]]
  /\ UNCHANGED <<vars, codec, build>>

\* the file_dir of process_file
FileDir(file_path) == IF HasParent(file_path) THEN Parent(file_path) ELSE Rel(<<DOT>>)

\* one turn of the loop over the require paths: the reference is resolved
\* and, when a file is found for it, process_file is called on that file
ProcessRequire ==
  /\ bundler.pc = "run"
  /\ LET n == Len(bundler.stack)
         fr == bundler.stack[n]
         file_dir == FileDir(fr.file_path)
         rr == resolve_require(fr.reqs[1], file_dir, bundler.configs,
                               bundler.aliases_canonical)
         actual_file == IF IsSome(rr.path) THEN find_module_file(Unwrap(rr.path)) ELSE None
         rest == [fr EXCEPT !.reqs = Tail(@)]
     IN /\ fr.entered
        /\ fr.reqs # <<>>
        /\ bundler' = [bundler EXCEPT
             !.configs = rr.configs,
             !.aliases_canonical = rr.aliases,
             !.last = IF StartsWith(fr.reqs[1], <<"@">>)
                      THEN [caller_dir |-> file_dir, alias |-> fr.reqs[1], path |-> rr.path]
                      ELSE @,
             !.stack = IF IsSome(actual_file)
                       THEN [@ EXCEPT ![n] = rest] \o <<Frame(Unwrap(actual_file))>>
                       ELSE [@ EXCEPT ![n] = rest]]
  /\ UNCHANGED <<vars, codec, build>>

\* process_file returns after its loop
ProcessReturn ==
  /\ bundler.pc = "run"
  /\ LET fr == bundler.stack[Len(bundler.stack)]
     IN fr.entered /\ fr.reqs = <<>>
  /\ bundler' = BundlePop(bundler)
  /\ UNCHANGED <<vars, codec, build>>

NextBundle ==
  \/ \E entry_path \in BundleEntries : BundleNew(entry_path)
  \/ BundleAgain
  \/ ProcessFile
  \/ ProcessRequire
  \/ ProcessReturn

SpecBundle == Init /\ [][NextBundle]_<<vars, others>>

(***************************************************************************)
(* The metadata of a standalone binary (standalone/metadata.rs) and its    *)
(* use at startup (standalone/mod.rs).  A byte is a number in 0..255, a    *)
(* string the sequence of its UTF-8 bytes.  Metadata handed to the codec   *)
(* is a record [source, entry_path, files, aliases], as BuildCommand::run  *)
(* passes it; the Metadata struct of metadata.rs has the fields source and *)
(* entry_path.                                                             *)
(***************************************************************************)
MAGIC == <<99, 114, 51, 115, 99, 51, 110, 116>>

\* <[u8]>::ends_with
ends_with(bytes, suffix) ==
  /\ Len(bytes) >= Len(suffix)
  /\ SubSeq(bytes, Len(bytes) - Len(suffix) + 1, Len(bytes)) = suffix

\* (n as u64).to_be_bytes(), for the lengths of the model
to_be_bytes(n) ==
  <<0, 0, 0, 0, (n \div 16777216) % 256, (n \div 65536) % 256, (n \div 256) % 256, n % 256>>

\* u64::from_be_bytes: the value, or 2^24 for every value that is at least
\* 2^24 (no byte sequence of the model is that long)
from_be_bytes(b) ==
  IF \A i \in 1..5 : b[i] = 0 THEN b[6] * 65536 + b[7] * 256 + b[8] ELSE 16777216

\* usize::try_from(u64) succeeds: always where usize has 64 bits, and for the
\* values below 2^32 where it has 32 bits
try_from_ok(b, usize_bits) == usize_bits = 64 \/ \A i \in 1..4 : b[i] = 0

\* String::from_utf8 succeeds.  The bytes of the model are ASCII bytes and
\* the byte 255, which no UTF-8 text holds.
from_utf8_ok(bytes) == \A i \in 1..Len(bytes) : bytes[i] < 128

\* Metadata::to_bytes
to_bytes(meta) ==
  meta.source \o meta.entry_path \o to_be_bytes(Len(meta.entry_path))
    \o to_be_bytes(Len(meta.source)) \o MAGIC

\* Metadata::create_env_patched_bin on the bytes of the base executable
create_env_patched_bin(base_exe, m) ==
  base_exe \o to_bytes([source |-> m.source, entry_path |-> m.entry_path])

\* Metadata::check_env on the bytes of the current executable
check_env(contents) == ends_with(contents, MAGIC)

\* Metadata::from_bytes, in a build whose usize has usize_bits bits.  The
\* result is Ok with the metadata, Err with a message, or Panic: the
\* subtraction of line 98 overflows when the two sizes exceed the bytes
\* before the trailer, which panics where overflow is checked and else wraps
\* to an offset beyond the bytes, at which the slicing of 101-105 panics.
from_bytes(bytes, usize_bits) ==
  LET n == Len(bytes)
      source_size_bytes == SubSeq(bytes, n - 15, n - 8)
      entry_path_size_bytes == SubSeq(bytes, n - 23, n - 16)
      source_size == from_be_bytes(source_size_bytes)
      entry_path_size == from_be_bytes(entry_path_size_bytes)
      data_start == n - 24 - source_size - entry_path_size
      entry_path_bytes == SubSeq(bytes, data_start + source_size + 1,
                                 data_start + source_size + entry_path_size)
  IN IF n < 24 \/ ~ends_with(bytes, MAGIC)
     THEN [tag |-> "Err", msg |-> "not a standalone binary"]
     ELSE IF ~try_from_ok(source_size_bytes, usize_bits)
             \/ ~try_from_ok(entry_path_size_bytes, usize_bits)
     THEN [tag |-> "Err", msg |-> "TryFromIntError"]
     ELSE IF data_start < 0 THEN [tag |-> "Panic"]
     ELSE IF ~from_utf8_ok(entry_path_bytes) THEN [tag |-> "Err", msg |-> "FromUtf8Error"]
     ELSE [tag |-> "Ok",
           meta |-> [source |-> SubSeq(bytes, data_start + 1, data_start + source_size),
                     entry_path |-> entry_path_bytes]]

\* the metadata BuildCommand::run hands over: source, entry path, file map
\* and alias map
CodecMetas ==
  [source : {<<>>, <<45, 45>>, <<255>>},
   entry_path : {<<>>, <<47, 109>>},
   files : {{}, {<<"/a.luau", <<45>>>>}},
   aliases : {{}, {<<"@k/a", "/a.luau">>}}]

\* base executables: empty, a plain one, one that ends with the magic, and
\* one that is a standalone binary itself
CodecHosts ==
  {<<>>, <<127, 69>>, MAGIC, to_bytes([source |-> <<1>>, entry_path |-> <<47>>])}

\* files not made by create_env_patched_bin
CodecForeign ==
  { <<>>, <<127, 69, 76, 70>>, MAGIC, to_be_bytes(0) \o MAGIC,
    to_be_bytes(0) \o to_be_bytes(0) \o MAGIC,
    to_be_bytes(0) \o to_be_bytes(5) \o MAGIC,
    <<7>> \o to_be_bytes(3) \o to_be_bytes(0) \o MAGIC,
    <<255>> \o to_be_bytes(1) \o to_be_bytes(0) \o MAGIC,
    to_be_bytes(0) \o <<1, 0, 0, 0, 0, 0, 0, 0>> \o MAGIC,
    <<0, 0, 0, 0, 1, 0, 0, 0>> \o to_be_bytes(0) \o MAGIC }

\* lune build writes the patched binary of metadata m
Patch(base_exe, m) ==
  /\ codec = Off
  /\ codec' = [pc |-> "file", made |-> TRUE, m |-> m,
               bytes |-> create_env_patched_bin(base_exe, m),
               is_standalone |-> FALSE, result |-> [tag |-> "None"]]
  /\ UNCHANGED <<vars, bundler, build>>

\* the executable is some other file
Foreign(bytes) ==
  /\ codec = Off
  /\ codec' = [pc |-> "file", made |-> FALSE, bytes |-> bytes,
               m |-> [source |-> <<>>, entry_path |-> <<>>, files |-> {}, aliases |-> {}],
               is_standalone |-> FALSE, result |-> [tag |-> "None"]]
  /\ UNCHANGED <<vars, bundler, build>>

\* a call of Metadata::from_bytes on the file
Decode(usize_bits) ==
  /\ codec # Off /\ codec.pc = "file"
  /\ codec' = [codec EXCEPT !.pc = "decoded", !.result = from_bytes(codec.bytes, usize_bits)]
  /\ UNCHANGED <<vars, bundler, build>>

\* startup, standalone::check
Check ==
  /\ codec # Off /\ codec.pc = "file"
  /\ codec' = [codec EXCEPT !.pc = "checked", !.is_standalone = check_env(codec.bytes)]
  /\ UNCHANGED <<vars, bundler, build>>

\* startup, standalone::run up to the metadata: expect panics on Err
Run(usize_bits) ==
  /\ codec # Off /\ codec.pc = "checked" /\ codec.is_standalone
  /\ codec' = [codec EXCEPT
                 !.pc = "ran",
                 !.result = IF from_bytes(codec.bytes, usize_bits).tag = "Ok"
                            THEN from_bytes(codec.bytes, usize_bits)
                            ELSE [tag |-> "Panic"]]
  /\ UNCHANGED <<vars, bundler, build>>

NextCodec ==
  \/ \E base_exe \in CodecHosts, m \in CodecMetas : Patch(base_exe, m)
  \/ \E bytes \in CodecForeign : Foreign(bytes)
  \/ \E usize_bits \in {32, 64} : Decode(usize_bits)
  \/ Check
  \/ \E usize_bits \in {32, 64} : Run(usize_bits)

SpecCodec == Init /\ [][NextCodec]_<<vars, others>>

(***************************************************************************)
(* The build command (cli/build/mod.rs).                                   *)
(***************************************************************************)
\* resolve_entry_file
resolve_entry_file(path) ==
  LET init_luau == PathJoin(path, Rel(<< <<"init", ".", "luau">> >>))
      init_lua == PathJoin(path, Rel(<< <<"init", ".", "lua">> >>))
  IN IF IsDir(path) /\ IsFile(init_luau) THEN init_luau
     ELSE IF IsDir(path) /\ IsFile(init_lua) THEN init_lua
     ELSE path

\* files::remove_source_file_ext: the path without its extension when that
\* is the extension of a script
remove_source_file_ext(path) ==
  LET name == path.comps[Len(path.comps)]
  IN IF path.comps # <<>> /\ ExtDot(name) # 0
        /\ SubSeq(name, ExtDot(name) + 1, Len(name)) \in {<<"luau">>, <<"lua">>}
     THEN with_extension(path, <<>>)
     ELSE path

\* the entry path as it would be if it were made relative to the project
\* root found before the bundling
run_entry_path_initial_root(entry_file, base_dir) ==
  LET canonical_entry == IF IsSome(canonicalize(entry_file))
                         THEN Unwrap(canonicalize(entry_file)) ELSE entry_file
  IN IF PathStartsWith(canonical_entry, find_project_root(entry_file))
     THEN <<"/">> \o Display(strip_prefix(canonical_entry, find_project_root(entry_file)))
     ELSE Display(canonical_entry)

\* the entry path BuildCommand::run hands to create_env_patched_bin, base_dir
\* being bundler.base_dir() after bundle() has returned
run_entry_path(entry_file, base_dir) ==
  LET canonical_entry == IF IsSome(canonicalize(entry_file))
                         THEN Unwrap(canonicalize(entry_file)) ELSE entry_file
  IN IF PathStartsWith(canonical_entry, base_dir)
     THEN <<"/">> \o Display(strip_prefix(canonical_entry, base_dir))
     ELSE Display(canonical_entry)

\* BuildTarget::exe_extension: none, or "exe" for a Windows target
BuildExts == {<<>>, <<"exe">>}

\* the input paths of the command line: scripts, a script without extension
\* spelled in two ways, a directory without index file, a missing file
BuildInputs ==
  { PathNew(<<"m", ".", "luau">>), PathNew(<<"r">>), PathNew(<<"/", "p", "/", "r">>),
    PathNew(<<"s">>), PathNew(<<"zz", ".", "luau">>) }

\* the --output option: absent, or a path
BuildOutputs ==
  { None, Some(PathNew(<<"r">>)), Some(PathNew(<<".", "/", "r">>)),
    Some(PathNew(<<"/", "p", "/", "r">>)), Some(PathNew(<<"out">>)),
    Some(PathNew(<<"m", ".", "luau">>)) }

\* the steps of run after the check of the output path, in their order:
\* fs::read(&entry_file), Bundler::new and bundle,
\* get_or_download_base_executable, create_env_patched_bin,
\* write_executable_file_to
BuildSteps_write_early == <<"read", "bundle", "write", "base_exe", "patch">>

BuildSteps == <<"read", "bundle", "base_exe", "patch", "write">>

\* BuildCommand::run up to the check of the output path
BuildRun(input, output, exe_extension) ==
  /\ build = Off
  /\ LET entry_file == resolve_entry_file(input)
         is_directory_module == entry_file # input
         default == IF is_directory_module /\ input.comps # <<>>
                    THEN Rel(<<input.comps[Len(input.comps)]>>)
                    ELSE IF is_directory_module THEN input
                    ELSE remove_source_file_ext(input)
         output_path == with_extension(IF IsSome(output) THEN Unwrap(output) ELSE default,
                                       exe_extension)
     IN build' = [pc |-> IF ~IsFile(entry_file) \/ output_path = input
                            \/ output_path = entry_file
                         THEN "failed" ELSE "steps",
                  err |-> IF ~IsFile(entry_file) THEN "input"
                          ELSE IF output_path = input \/ output_path = entry_file
                          THEN "same path" ELSE "",
                  input |-> input, output |-> output, entry_file |-> entry_file,
                  output_path |-> output_path, done |-> <<>>, wrote |-> FALSE]
  /\ UNCHANGED <<vars, bundler, codec>>

\* the next step of run: it succeeds, or its error is returned with `?`; a
\* write that fails may have written a part of the file
BuildStep ==
  /\ build # Off /\ build.pc = "steps"
  /\ LET step == BuildSteps[Len(build.done) + 1]
     IN \E ok, part \in BOOLEAN :
          build' = IF ok
                   THEN [build EXCEPT
                           !.done = Append(@, step),
                           !.wrote = @ \/ step = "write",
                           !.pc = IF Len(build.done) + 1 = Len(BuildSteps)
                                  THEN "done" ELSE "steps"]
                   ELSE [build EXCEPT !.pc = "failed", !.err = step,
                                      !.wrote = @ \/ (step = "write" /\ part)]
  /\ UNCHANGED <<vars, bundler, codec>>

NextBuild ==
  \/ \E input \in BuildInputs, output \in BuildOutputs, exe_extension \in BuildExts :
       BuildRun(input, output, exe_extension)
  \/ BuildStep

SpecBuild == Init /\ [][NextBuild]_<<vars, others>>

(***************************************************************************)
(* Steps, as seen from outside.                                            *)
(***************************************************************************)
\* Thread t calls require in this step, call'[t] being the call.  A root
\* script that repeats a call that returned at once, with the same outcome,
\* leaves call as it is: the step is then taken as a call of every root
\* script whose latest call returned at once.
Starts(t) ==
  /\ \A u \in Threads \ {t} : call'[u] = call[u]
  /\ call'[t].pc # "idle"
  /\ \/ /\ t \in Roots
        /\ call[t].pc \in {"idle", "done"}
        /\ nreq' = nreq + 1
        /\ call'[t] # call[t] \/ call[t].via \in {"err", "builtin", "cache"}
     \/ call[t].pc = "idle" /\ call'[t] # call[t]

\* the load started by thread t ends in this step, result being the result of
\* the module's execution
Finishes(t) == call[t].pc = "wait" /\ call'[t].pc = "done"

\* the subscribed call of thread t returns in this step
Receives(t) == call[t].pc = "recv" /\ call'[t].pc = "done"

(***************************************************************************)
(* C1: two require calls of one never-loaded path that are in flight       *)
(* together run the module exactly once and both return the same result:   *)
(* once the loading call has returned, the module has been executed once   *)
(* since the load began, and the result the loading call returned is the   *)
(* message its only subscriber finds on the channel.                       *)
(***************************************************************************)
C1_TwoConcurrentRequires ==
  \A t \in Threads :
    call[t].pc = "recv" =>
      LET ch == chans[call[t].chan]
      IN ~ch.live /\ ch.nsub = 1 =>
           /\ execs[Unwrap(ch.key)] = ch.e0 + 1
           /\ ch.buf = <<Unwrap(ch.ret)>>

(***************************************************************************)
(* C2: once an execution of a module's top-level code has completed        *)
(* successfully, whatever it returned, the module is never executed again. *)
(***************************************************************************)
C2_ExecutedAtMostOnce ==
  [][\A m \in Files : succ[m] => execs'[m] = execs[m]]_vars

(***************************************************************************)
(* C3: every subscriber of a pending load returns the result that the      *)
(* loading call produced and returned.                                     *)
(***************************************************************************)
C3_SubscribersIdenticalResult ==
  [][\A t \in Threads :
       Receives(t) => call'[t].res = Unwrap(chans[call[t].chan].ret)]_vars

(***************************************************************************)
(* C4: when a load fails because the file cannot be read or the chunk      *)
(* cannot be started, the failure reaches every subscriber: no subscriber  *)
(* waits on a channel whose load has ended and that holds no message and   *)
(* is not closed.                                                          *)
(***************************************************************************)
C4_ReadFailureDelivered ==
  \A t \in Threads :
    call[t].pc = "recv" =>
      LET ch == chans[call[t].chan]
      IN ch.live \/ ch.buf # <<>> \/ ch.closed

(***************************************************************************)
(* C5: when a load ends with a failure of the module's execution, the path *)
(* has neither a cache entry nor a pending entry after that step, and a    *)
(* require of a path with neither entry starts a new load.                 *)
(***************************************************************************)
C5_FailedLoadIsRetried ==
  [][\A t \in Threads :
       /\ Finishes(t) /\ ~call'[t].res.ok =>
            /\ pending'[Unwrap(call[t].key)] = 0
            /\ cache'[Unwrap(call[t].key)] = NilV
       /\ /\ Starts(t)
          /\ IsSome(call'[t].key)
          /\ cache[Unwrap(call'[t].key)] = NilV
          /\ pending[Unwrap(call'[t].key)] = 0
          => call'[t].pc = "read" /\ call'[t].via = "load"]_vars

C5_Witness ==
  \E t, u \in Threads :
    /\ t # u
    /\ call[t].pc = "done" /\ call[t].via = "load"
    /\ call[t].res.err.kind = "runtime" /\ call[t].res.err.n = 1
    /\ call[u].key = call[t].key
    /\ call[u].pc = "done" /\ call[u].via = "load" /\ call[u].res.ok
    /\ execs[Unwrap(call[t].key)] = 2

(***************************************************************************)
(* C6: a circular require terminates: no require calls wait for each other *)
(* in a circle.  A call that waits for the thread of the module it loads   *)
(* waits for that thread; a subscribed call waits for the thread of the    *)
(* call that loads.                                                        *)
(***************************************************************************)
WaitsFor(t) ==
  IF call[t].pc = "wait" THEN call[t].key
  ELSE IF call[t].pc = "recv" /\ chans[call[t].chan].live
  THEN Some(CHOOSE u \in Threads :
              call[u].pc \in {"read", "wait"} /\ call[u].chan = call[t].chan)
  ELSE None

RECURSIVE WaitChain(_, _)
WaitChain(t, n) ==
  IF n = 0 THEN Some(t)
  ELSE IF IsSome(WaitsFor(t)) THEN WaitChain(Unwrap(WaitsFor(t)), n - 1)
  ELSE None

C6_CircularRequireTerminates ==
  \A t \in Threads : \A n \in 1..Cardinality(Threads) : WaitChain(t, n) # Some(t)

(***************************************************************************)
(* C7: a require of a path that is in the module cache returns the cached  *)
(* value in the step of the call, and changes neither the cache nor the    *)
(* pending table nor the channels, and executes nothing.                   *)
(***************************************************************************)
C7_CacheHitReturnsAtOnce ==
  [][\A t \in Threads :
       /\ Starts(t)
       /\ IsSome(call'[t].key)
       /\ cache[Unwrap(call'[t].key)] # NilV
       => /\ call'[t].pc = "done"
          /\ call'[t].res = Ok(<<cache[Unwrap(call'[t].key)]>>)
          /\ UNCHANGED <<cache, pending, chans, mod, execs>>]_vars

C7_Witness ==
  \E t \in Threads :
    /\ call[t].pc = "done" /\ call[t].via = "cache"
    /\ call[t].res = Ok(<<cache[Unwrap(call[t].key)]>>)
    /\ execs[Unwrap(call[t].key)] = 1

(***************************************************************************)
(* The file a reference spelling denotes, read off the file system: the    *)
(* directory the spelling starts from (the root, the caller's directory or *)
(* the nearest directory at or above the caller whose configuration        *)
(* declares the alias) is walked along the spelling, and the last name     *)
(* stands for the file of that name, else the file with a script           *)
(* extension, else the index file of the directory of that name.           *)
(***************************************************************************)
Child(d, name) == [abs |-> TRUE, comps |-> Append(d.comps, name)]

NamedFile(d, name) ==
  LET cands == << Child(d, name),
                  Child(d, name \o <<".", "luau">>),
                  Child(d, name \o <<".", "lua">>),
                  Child(Child(d, name), <<"init", ".", "luau">>),
                  Child(Child(d, name), <<"init", ".", "lua">>) >>
      hits == {i \in 1..Len(cands) : cands[i] \in Files}
  IN IF hits = {} THEN None
     ELSE Some(cands[CHOOSE i \in hits : \A j \in hits : i <= j])

DenotedFrom(base, comps) ==
  LET d == Walk(base, SubSeq(comps, 1, Len(comps) - 1))
  IN IF comps = <<>> \/ ~IsSome(d) THEN None
     ELSE IF Unwrap(d) \notin Dirs THEN None
     ELSE NamedFile(Unwrap(d), comps[Len(comps)])

Ancestors(d) == {[abs |-> TRUE, comps |-> SubSeq(d.comps, 1, n)] : n \in 0..Len(d.comps)}

Declares(d, name) == IsSome(read_luaurc(d)) /\ IsSome(AliasesGet(Unwrap(read_luaurc(d)), name))

DeclaredValue(d, name) == SplitSlash(Unwrap(AliasesGet(Unwrap(read_luaurc(d)), name)))

Denoted(arg, t) ==
  IF arg.t # "String" THEN None
  ELSE
    LET dir == IF t = Anon THEN CWD ELSE Parent(t)
        parts == SplitSlash(arg.s)
        name == Tail(parts[1])
        decl == {d \in Ancestors(dir) : Declares(d, name)}
        near == CHOOSE d \in decl : \A e \in decl : Len(e.comps) <= Len(d.comps)
    IN IF parts[1] = <<>> THEN DenotedFrom(Root, Tail(parts))
       ELSE IF parts[1] \in {DOT, DOTDOT} /\ Len(parts) > 1 THEN DenotedFrom(dir, parts)
       ELSE IF parts[1] # <<>> /\ parts[1][1] = "@" /\ name # <<"lune">>
       THEN IF name = <<"self">> THEN DenotedFrom(dir, Tail(parts))
            ELSE IF decl = {} THEN None
            ELSE DenotedFrom(near, DeclaredValue(near, name) \o Tail(parts))
       ELSE None

(***************************************************************************)
(* C8: two reference spellings that denote the same file, whatever their   *)
(* form and the caller's directory, resolve to the same cache key, so that *)
(* they share the cache entry and the pending entry of the file (no two    *)
(* loads of spellings of one file are in flight together) and the file is  *)
(* executed once.                                                          *)
(***************************************************************************)
\* the arguments thread t can call require with
ArgsOf(t) == RootArgs(t) \cup {Deps(t)[i] : i \in 1..Len(Deps(t))} \cup {IdleCall.arg}

DenotedTable == [t \in Threads |-> [arg \in ArgsOf(t) |-> Denoted(arg, t)]]

DenotedByCall == [t \in Threads |-> DenotedTable[t][call[t].arg]]

\* the keys: same file, same key, and one load in flight at most
C8_SameFileSameKey ==
  LET den == DenotedByCall
  IN /\ \A t, u \in Threads :
          /\ call[t].pc # "idle" /\ call[u].pc # "idle"
          /\ IsSome(den[t])
          /\ den[t] = den[u]
          => IsSome(call[t].key) /\ call[t].key = call[u].key
     /\ \A t, u \in Threads :
          /\ t # u
          /\ call[t].pc \in {"read", "wait"} /\ call[u].pc \in {"read", "wait"}
          => den[t] # den[u]

\* the claim with its consequence: calls by spellings of one file do not
\* both load it successfully
C8_SameFileSingleExecution ==
  LET den == DenotedByCall
  IN /\ C8_SameFileSameKey
     /\ \A t, u \in Threads :
          /\ t # u
          /\ call[t].pc = "done" /\ call[u].pc = "done"
          /\ IsSome(den[t]) /\ den[t] = den[u]
          /\ call[t].res.ok /\ call[u].res.ok
          => ~(call[t].via = "load" /\ call[u].via = "load")

(***************************************************************************)
(* C9: a require of a string that starts with none of "./", "../", "/",    *)
(* "@" fails in the step of the call with the usage error, and changes     *)
(* neither the cache nor the pending table and executes nothing.           *)
(***************************************************************************)
InvalidForm(arg) ==
  /\ arg.t = "String"
  /\ \A prefix \in { <<".", "/">>, <<".", ".", "/">>, <<"/">>, <<"@">> } :
       ~StartsWith(arg.s, prefix)

C9_InvalidReferenceForm ==
  [][\A t \in Threads :
       Starts(t) /\ InvalidForm(call'[t].arg)
       => /\ call'[t].pc = "done"
          /\ ~call'[t].res.ok
          /\ call'[t].res.err.kind = ERR_FORM
          /\ UNCHANGED <<cache, pending, chans, mod, execs>>]_vars

C9_Witness ==
  \E t \in Threads :
    /\ call[t].pc = "done"
    /\ InvalidForm(call[t].arg)
    /\ call[t].res.err.kind = ERR_FORM
    /\ \E u \in Threads : call[u].pc \in {"read", "wait"}

(***************************************************************************)
(* C10: a require of "@lune/<name>" returns in the step of the call: the   *)
(* registered value when the table of built-in modules has the key, an     *)
(* error when it has not.  No configuration file is looked for, no file is *)
(* read or executed, and the cache and the pending table do not change.    *)
(***************************************************************************)
BuiltinRef(arg) == arg.t = "String" /\ StartsWith(arg.s, <<"@", "lune", "/">>)

C10_BuiltinNamespace ==
  [][\A t \in Threads :
       Starts(t) /\ BuiltinRef(call'[t].arg)
       => /\ call'[t].pc = "done"
          /\ call'[t].read = {}
          /\ call'[t].key = None
          /\ IF RegisteredGet(call'[t].arg.s) # NilV
             THEN call'[t].res = Ok(<<RegisteredGet(call'[t].arg.s)>>)
             ELSE /\ ~call'[t].res.ok
                  /\ call'[t].res.err.kind = "cannot find built-in module"
          /\ UNCHANGED <<cache, pending, chans, mod, execs>>]_vars

C10_Witness ==
  /\ call[Anon].pc = "done" /\ call[Anon].arg = Str(<<"@", "lune", "/", "fs">>)
  /\ call[Anon].res.ok
  /\ call[FileN].pc = "done" /\ call[FileN].arg = Str(<<"@", "lune", "/", "zz">>)
  /\ ~call[FileN].res.ok
(***************************************************************************)
(* C20: a pending entry for a path exists only while a load of that path   *)
(* is in flight, however the load ends; so when no require call is in      *)
(* progress the pending table is empty.                                    *)
(***************************************************************************)
C20_PendingOnlyWhileInFlight ==
  \A k \in Files :
    pending[k] # 0 =>
      \E t \in Threads : call[t].pc \in {"read", "wait"} /\ call[t].key = Some(k)

(***************************************************************************)
(* C11: an alias is resolved by the nearest directory, from the caller's   *)
(* directory upward, whose configuration file declares the name; the       *)
(* declared value is joined to that directory and then to the rest of the  *)
(* reference.                                                              *)
(***************************************************************************)
\* the path the rule gives for alias, met in a file of the directory dir
NearestDeclared(alias, dir) ==
  LET alias_path == Tail_(alias, 2)
      idx == Find(alias_path, "/")
      alias_name == IF idx # 0 THEN SubSeq(alias_path, 1, idx - 1) ELSE alias_path
      rest == IF idx # 0 THEN Tail_(alias_path, idx + 1) ELSE <<>>
      decl == {d \in Ancestors(dir) : Declares(d, alias_name)}
      near == CHOOSE d \in decl : \A e \in decl : Len(e.comps) <= Len(d.comps)
      value == Unwrap(AliasesGet(Unwrap(read_luaurc(near)), alias_name))
  IN IF decl = {} THEN None
     ELSE Some(clean_path(PathJoin(PathJoin(near, PathNew(value)), PathNew(rest))))

\* C11: every alias the bundler has resolved, for a file of the directory
\* that caller_dir names, resolved to the path that the nearest declaring
\* directory at or above that directory gives, and to nothing when no
\* directory at or above it declares the name
C11_AliasNearestDeclaringDirectory ==
  (bundler.pc # "off" /\ bundler.last.alias # <<>>) =>
    LET dir == Unwrap(FsLookup(bundler.last.caller_dir))
        want == NearestDeclared(bundler.last.alias, dir)
        got == bundler.last.path
    IN /\ IsSome(got) <=> IsSome(want)
       /\ IsSome(got) => clean_path_and_make_absolute(Unwrap(got)) = Unwrap(want)

(***************************************************************************)
(* C12: bundling terminates, cycles and diamonds included; a file is read  *)
(* and stored once at most, and a call of process_file on a file already   *)
(* visited changes nothing.                                                *)
(***************************************************************************)
\* the call of process_file on top of the stack is about to start on a file
\* that is in the visited set
Revisit ==
  /\ bundler.pc = "run"
  /\ LET fr == bundler.stack[Len(bundler.stack)]
     IN /\ ~fr.entered
        /\ IsSome(canonicalize(fr.file_path))
        /\ Unwrap(canonicalize(fr.file_path)) \in bundler.processed

\* the most require references the source of one file holds
MaxRefs ==
  CHOOSE n \in {Len(Source(f)) : f \in Files} : \A f \in Files : Len(Source(f)) <= n

\* the work a bundling run has left: the files not yet visited, and for every
\* call of process_file on the stack the call itself and the references its
\* loop has still to follow
RECURSIVE StackWork(_)
StackWork(stack) ==
  IF stack = <<>> THEN 0
  ELSE (IF stack[1].entered THEN 1 ELSE 2) + 3 * Len(stack[1].reqs) + StackWork(Tail(stack))

RunWork == (3 * MaxRefs + 1) * (Cardinality(Files) + 1)

Work(b) ==
  IF b.pc = "off" THEN (RunWork + 1) * MaxRuns
  ELSE (RunWork + 1) * (MaxRuns - b.run) +
       (IF b.pc # "run" THEN 0
        ELSE (3 * MaxRefs + 1) * Cardinality(Files \ b.processed) + StackWork(b.stack))

\* C12: no file is read twice, a revisit leaves the visited set, the stored
\* files, the alias map and the project root as they are and only returns
\* to the caller, and every step of a bundling run leaves less work than
\* there was, so that every run ends, in a bundle or in an error
C12_BundlingTerminates ==
  /\ [](bundler.pc # "off" => \A f \in Files : bundler.reads[f] <= 1)
  /\ [][/\ Work(bundler') < Work(bundler)
        /\ Revisit =>
             /\ bundler'.processed = bundler.processed
             /\ bundler'.files_canonical = bundler.files_canonical
             /\ bundler'.aliases_canonical = bundler.aliases_canonical
             /\ bundler'.base_dir = bundler.base_dir
             /\ bundler'.reads = bundler.reads
             /\ bundler'.pc \in {"run", "done"}]_<<vars, others>>

\* the cycle /p/a.luau <-> /p/b.luau was walked: process_file was called
\* again on /p/a.luau, and the bundle was returned
C12_Witness ==
  /\ bundler.pc = "done"
  /\ FileA \in bundler.revisits
  /\ {FileA, FileB} \subseteq bundler.files_canonical

(***************************************************************************)
(* C13: the keys of the bundle's file map are the files reachable from the *)
(* entry file through the require references found in the sources.         *)
(***************************************************************************)
\* the files that the references in the source of file f denote
Required(f) ==
  {Unwrap(Denoted(Str(Source(f)[i]), f)) :
     i \in {j \in 1..Len(Source(f)) : IsSome(Denoted(Str(Source(f)[j]), f))}}

\* the files reachable from the files of set
RECURSIVE Reachable(_)
Reachable(set) ==
  LET more == set \cup UNION {Required(f) : f \in set}
  IN IF more = set THEN set ELSE Reachable(more)

ReachableTable ==
  [entry_path \in BundleEntries |-> Reachable({Unwrap(canonicalize(entry_path))})]

\* C13: a bundle that was returned holds, under their keys, the files
\* reachable from the entry file: none is missing, and no other file is there
C13_BundleIsReachableSet ==
  bundler.pc = "done" =>
    bundler.files = {normalize_path(bundler.base_dir, f) : f \in ReachableTable[bundler.entry]}

(***************************************************************************)
(* C14: the keys of the file map and the values of the alias map are       *)
(* slash-prefixed paths relative to the final project root, which is at or *)
(* above every file of the bundle; none is an absolute path of the host.   *)
(***************************************************************************)
\* text is "/" followed by the path, relative to root, of the file f
RootRelative(text, root, f) ==
  /\ text # <<>> /\ text[1] = "/"
  /\ Walk(root, SplitSlash(Tail(text))) = Some(f)

\* C14 as stated: in a bundle that was returned the final root is at or
\* above every visited file, every key and every alias value leads from the
\* final root to a file of the bundle, and none of them is the absolute path
\* of that file on the host
C14_KeysRelativeToFinalRoot ==
  bundler.pc = "done" =>
    /\ \A f \in bundler.processed : PathStartsWith(f, bundler.base_dir)
    /\ \A k \in bundler.files :
         \E f \in bundler.files_canonical :
           RootRelative(k, bundler.base_dir, f) /\ k # Display(f)
    /\ \A e \in bundler.aliases :
         \E f \in bundler.files_canonical :
           RootRelative(e[2], bundler.base_dir, f) /\ e[2] # Display(f)

\* C14, amended: the same, except that a key or alias value is the absolute
\* path of its file when the final root is the root of the file system (the
\* files of the bundle have no other directory in common)
C14_KeysRelativeUnlessRootIsTop ==
  bundler.pc = "done" =>
    /\ \A f \in bundler.processed : PathStartsWith(f, bundler.base_dir)
    /\ \A k \in bundler.files :
         \E f \in bundler.files_canonical :
           /\ RootRelative(k, bundler.base_dir, f)
           /\ (k = Display(f)) <=> (bundler.base_dir = Root)
    /\ \A e \in bundler.aliases :
         \E f \in bundler.files_canonical :
           /\ RootRelative(e[2], bundler.base_dir, f)
           /\ (e[2] = Display(f)) <=> (bundler.base_dir = Root)

\* a bundle with an alias was returned whose walk left the root guessed from
\* the entry file: the root was widened, to a directory below the top
C14_Witness ==
  /\ bundler.pc = "done"
  /\ bundler.base_dir # find_project_root(bundler.entry)
  /\ bundler.base_dir # Root
  /\ bundler.aliases # {}
  /\ \E f \in bundler.processed : ~PathStartsWith(f, find_project_root(bundler.entry))

(***************************************************************************)
(* C15: metadata that was encoded, and appended to the bytes of any base   *)
(* executable, is decoded to the same metadata: entry source, entry path,  *)
(* file map and alias map.                                                 *)
(***************************************************************************)
\* the file map and the alias map of decoded metadata; metadata without the
\* two fields carries no files and no aliases
MapsOf(meta) ==
  IF {"files", "aliases"} \subseteq DOMAIN meta THEN <<meta.files, meta.aliases>>
  ELSE <<{}, {}>>

\* C15: from_bytes on a binary made by create_env_patched_bin returns the
\* metadata the binary was made of, whatever the base executable
C15_DecodeEncodeRoundTrip ==
  (codec # Off /\ codec.pc = "decoded" /\ codec.made) =>
    /\ codec.result.tag = "Ok"
    /\ codec.result.meta.source = codec.m.source
    /\ codec.result.meta.entry_path = codec.m.entry_path
    /\ MapsOf(codec.result.meta) = <<codec.m.files, codec.m.aliases>>

(***************************************************************************)
(* C16: a file counts as a standalone binary, for check_env and for        *)
(* from_bytes alike, exactly when it ends with the magic and is at least   *)
(* 16 bytes long.                                                          *)
(***************************************************************************)
\* C16: check_env answers true, and from_bytes answers anything but "not a
\* standalone binary", exactly for the files of 16 bytes or more that end
\* with the magic
C16_StandaloneIffMagicAndLength ==
  codec # Off =>
    LET standalone == ends_with(codec.bytes, MAGIC) /\ Len(codec.bytes) >= 16
        refused == codec.result = [tag |-> "Err", msg |-> "not a standalone binary"]
    IN /\ codec.pc = "checked" => (codec.is_standalone <=> standalone)
       /\ codec.pc = "decoded" => (~refused <=> standalone)

(***************************************************************************)
(* C17: from_bytes never panics: it answers "not a standalone binary" for  *)
(* bytes without the magic and another, distinct error for bytes with the  *)
(* magic whose sizes or payload are truncated or malformed; startup ends   *)
(* in an ordinary result as well.                                          *)
(***************************************************************************)
\* C17: no call of from_bytes and no startup ends in a panic, and a call of
\* from_bytes that returns no metadata returns "not a standalone binary" when
\* the bytes do not end with the magic and another error when they do
C17_DecodeNeverPanics ==
  codec # Off =>
    LET refused == codec.result = [tag |-> "Err", msg |-> "not a standalone binary"]
    IN /\ codec.pc \in {"decoded", "ran"} => codec.result.tag # "Panic"
       /\ (codec.pc = "decoded" /\ ~ends_with(codec.bytes, MAGIC)) => refused
       /\ (codec.pc = "decoded" /\ ends_with(codec.bytes, MAGIC)
             /\ codec.result.tag # "Ok") => (codec.result.tag = "Err" /\ ~refused)

(***************************************************************************)
(* C18: a build whose output path denotes the file of the input path or of *)
(* the entry file is rejected, before the output path is read or written.  *)
(***************************************************************************)
\* the paths a and b lead to the same file or directory
SameFile(a, b) == IsSome(FsLookup(a)) /\ FsLookup(a) = FsLookup(b)

\* C18: a run on an existing entry file whose output path is the input or
\* the entry file under another spelling ends with the error of the output
\* check, with no step of the run taken and nothing written
C18_SameFileOutputRejected ==
  (/\ build # Off
   /\ build.err # "input"
   /\ SameFile(build.output_path, build.input)
        \/ SameFile(build.output_path, build.entry_file)) =>
    /\ build.pc = "failed" /\ build.err = "same path"
    /\ build.done = <<>>
    /\ ~build.wrote

(***************************************************************************)
(* C19: the output file is written only after every other step of the      *)
(* build has succeeded; a build that fails before has written nothing.     *)
(***************************************************************************)
\* C19: when something was written to the output path, the entry file had
\* been validated, the output path checked, and the entry read, the bundle,
\* the base executable and the patched binary obtained; a run that failed
\* in any of these has written nothing
C19_WriteIsLast ==
  build # Off =>
    /\ build.wrote =>
         /\ IsFile(build.entry_file)
         /\ build.output_path # build.input /\ build.output_path # build.entry_file
         /\ \A step \in {"read", "bundle", "base_exe", "patch"} :
              \E i \in 1..Len(build.done) : build.done[i] = step
    /\ (build.pc = "failed" /\ build.err # "write") => ~build.wrote

\* a run that failed in its last step before the write, create_env_patched_bin,
\* and has written nothing
C19_Witness ==
  /\ build # Off /\ build.pc = "failed" /\ build.err = "patch"
  /\ build.done = <<"read", "bundle", "base_exe">>
  /\ ~build.wrote

(***************************************************************************)
(* C21: the module cache is monotonic: an entry, once made, is neither     *)
(* removed nor given another value.                                        *)
(***************************************************************************)
\* C21: no step changes or removes the cache entry of a path that has one
C21_CacheMonotonic ==
  [][\A k \in Files : cache[k] # NilV => cache'[k] = cache[k]]_<<vars, others>>

\* /p/s/c.luau has a cache entry, made by its one execution, and a later
\* require of it was answered from the entry
C21_Witness ==
  /\ cache[FileC] # NilV
  /\ execs[FileC] = 1
  /\ \E t \in Threads :
       call[t].pc = "done" /\ call[t].via = "cache" /\ call[t].key = Some(FileC)

(***************************************************************************)
(* C22: the cache holds only values that a successful top-level execution  *)
(* of the module at that key returned.                                     *)
(***************************************************************************)
\* C22: every cache entry is the first value returned by an execution of the
\* module at its key, and some execution of that module has succeeded; no
\* error of any kind is held as an entry
C22_CacheHoldsOnlyModuleValues ==
  \A k \in Files :
    cache[k] # NilV =>
      /\ succ[k]
      /\ \E n \in 1..execs[k] : cache[k] = V(Display(k), n, 1)

\* the first execution of /p/s/c.luau failed and its error was returned to
\* the caller; the entry is the value of the second execution
C22_Witness ==
  /\ cache[FileC] = V(Display(FileC), 2, 1)
  /\ \E t \in Threads :
       /\ call[t].pc = "done" /\ call[t].key = Some(FileC)
       /\ call[t].res = Err("runtime", Display(FileC), 1)

(***************************************************************************)
(* C23: a pending load of one path does not block the requires of another  *)
(* path.                                                                   *)
(***************************************************************************)
InProgress(t) == call[t].pc \in {"read", "wait", "recv"}

\* some step of thread u is possible: read_file returns, the module it waits
\* for has ended, its channel has a message or is closed, or u is a module
\* whose code is running and not inside a require call
Active(u) ==
  \/ call[u].pc = "read"
  \/ call[u].pc = "wait" /\ mod[Unwrap(call[u].key)].st = "fin"
  \/ /\ call[u].pc = "recv"
     /\ chans[call[u].chan].buf # <<>> \/ chans[call[u].chan].closed
  \/ u \in Files /\ mod[u].st = "run" /\ call[u].pc \in {"idle", "done"}

\* the threads the call of t waits for, itself included
Chain(t) ==
  {u \in Threads : \E n \in 0..Cardinality(Threads) : WaitChain(t, n) = Some(u)}

\* the call of t waits in a circle
InCircle(t) == \E u \in Chain(t) : \E n \in 1..Cardinality(Threads) : WaitChain(u, n) = Some(u)

\* the call of t waits for a load that ended without sending or closing
OnDeadEntry(t) ==
  \E u \in Chain(t) :
    /\ call[u].pc = "recv"
    /\ ~chans[call[u].chan].live
    /\ chans[call[u].chan].buf = <<>>
    /\ ~chans[call[u].chan].closed

\* C23: a call waits for nothing but the entry of its own path (the channel
\* of a subscriber is the one made for its path, and a loading call has its
\* path registered from the step of its checks on), and whatever other loads
\* are pending, a call in progress has a possible step in its own chain of
\* waits unless that chain itself is a circle or ends at a dead entry
C23_PendingLoadBlocksNoOtherPath ==
  \A t \in Threads :
    /\ call[t].pc = "recv" => chans[call[t].chan].key = call[t].key
    /\ call[t].pc \in {"read", "wait"} => pending[Unwrap(call[t].key)] = call[t].chan
    /\ InProgress(t) =>
         \/ \E u \in Chain(t) : Active(u)
         \/ InCircle(t)
         \/ OnDeadEntry(t)

\* the loads of /p/a.luau and /p/b.luau are pending for ever (they wait for
\* each other); the load of /p/s/c.luau, registered after them, has run its
\* module to the end
C23_Witness ==
  /\ pending[FileA] = 1 /\ pending[FileB] = 2 /\ pending[FileC] = 3
  /\ call[FileB].pc = "recv"
  /\ mod[FileC].st = "fin" /\ mod[FileC].result.ok
  /\ \E t \in Roots : call[t].pc = "wait" /\ call[t].key = Some(FileC) /\ Active(t)

(***************************************************************************)
(* C24: a subscriber returns only after the module run of the load it      *)
(* subscribed to has completed.                                            *)
(***************************************************************************)
\* C24: when a subscribed call returns, the load that made its channel has
\* ended after an execution of the module that began after the channel was
\* made, and what the subscriber returns is the result of that load or the
\* error of the closed channel
C24_SubscriberReturnsAfterCompletion ==
  [][\A t \in Threads :
       Receives(t) =>
         LET ch == chans[call[t].chan]
         IN /\ ~ch.live
            /\ ch.closed
            /\ IsSome(ch.ret)
            /\ execs[Unwrap(ch.key)] > ch.e0
            /\ \/ call'[t].res = Unwrap(ch.ret)
               \/ call'[t].res = Err("require interrupted", <<>>, 0)]_<<vars, others>>

\* a subscribed call has returned the value of the one execution of
\* /p/s/c.luau, whose load another call made
C24_Witness ==
  \E t \in Threads :
    /\ call[t].pc = "done" /\ call[t].via = "sub" /\ call[t].key = Some(FileC)
    /\ call[t].res = Ok(<<V(Display(FileC), 1, 1)>>)
    /\ execs[FileC] = 1

(***************************************************************************)
(* C25: a load pushes the module's location onto the stack of script paths *)
(* before the module runs and pops it when the load completes.             *)
(***************************************************************************)
\* C25: while the top-level code of a module is running and is not itself
\* waiting in a require call, the current script path is the path of that
\* module
C25_TopIsExecutingModule ==
  \A m \in Modules :
    mod[m].st = "run" /\ call[m].pc = "idle" =>
      get_current_script_path(script_path_stack) = Some(Display(m))

(***************************************************************************)
(* C26: within one Loader or Bundler the configuration file of a directory *)
(* is located and parsed at most once.                                     *)
(***************************************************************************)
\* C26: no directory has had its configuration file looked for by the
\* require calls of two threads of the runtime
C26_ConfigReadAtMostOnce ==
  \A d \in Dirs : Cardinality({t \in Threads : d \in call[t].read}) <= 1

(***************************************************************************)
(* C27: every alias literal used to reach a discovered file is a key of    *)
(* the alias map of the bundle.                                            *)
(***************************************************************************)
\* the alias literals in the source of file f that lead to a file, resolved
\* from the directory of f
AliasLiteralsUsed(f) ==
  {Source(f)[i] : i \in {j \in 1..Len(Source(f)) :
      LET lit == Source(f)[j]
          rr == resolve_require(lit, Parent(f), {}, {})
      IN /\ StartsWith(lit, <<"@">>)
         /\ ~StartsWith(lit, LUNE_PREFIX)
         /\ IsSome(rr.path)
         /\ IsSome(find_module_file(Unwrap(rr.path)))}}

\* C27: in a returned bundle every alias literal of a bundled file that leads
\* to a file is a key of the alias map, spelled as in the source
C27_AliasLiteralsAreKeys ==
  bundler.pc = "done" =>
    \A f \in bundler.files_canonical :
      \A lit \in AliasLiteralsUsed(f) : \E e \in bundler.aliases : e[1] = lit

(***************************************************************************)
(* C28: the Bundler resolves a reference to a file exactly when the        *)
(* runtime does, and to the same file.                                     *)
(***************************************************************************)
\* the file the runtime resolves the reference lit of the script caller_file
\* to: resolve_require_arg, resolve_alias for an alias, and the file lookup
RuntimeResolves(lit, caller_file) ==
  LET rr == resolve_require_arg(Str(lit), Some(caller_file))
      abs == IF rr.tag = "FilePath" THEN Some(rr.abs)
             ELSE IF rr.tag = "Alias"
             THEN resolve_alias(rr.alias, CallerDir(Some(caller_file))).path
             ELSE None
  IN IF IsSome(abs) /\ LuauModulePath_resolve(Unwrap(abs)).tag = "File"
     THEN FsLookup(LuauModulePath_resolve(Unwrap(abs)).path)
     ELSE None

\* C28: in every turn of the loop of process_file the Bundler calls
\* process_file on a file exactly when the runtime resolves the reference,
\* made in the same file, to a file, and then on that file
C28_BundlerResolvesAsRuntime ==
  [][(/\ bundler.pc = "run"
      /\ bundler.stack[Len(bundler.stack)].entered
      /\ bundler.stack[Len(bundler.stack)].reqs # <<>>) =>
       LET fr == bundler.stack[Len(bundler.stack)]
           rt == RuntimeResolves(fr.reqs[1], Unwrap(canonicalize(fr.file_path)))
           followed == Len(bundler'.stack) > Len(bundler.stack)
       IN IF IsSome(rt)
          THEN followed /\ canonicalize(bundler'.stack[Len(bundler'.stack)].file_path) = rt
          ELSE ~followed]_<<vars, others>>

(***************************************************************************)
(* C29: references to built-in modules add no file, no alias entry, no     *)
(* configuration lookup and no failure to a bundling run.                  *)
(***************************************************************************)
\* C29: no reference of the built-in namespace is among the references a
\* call of process_file has still to resolve (so none is resolved, followed
\* or looked up in a configuration file), none is the alias last resolved,
\* and none is a key of the alias map
C29_BuiltinReferencesExcluded ==
  bundler.pc # "off" =>
    /\ \A i \in 1..Len(bundler.stack) :
         \A j \in 1..Len(bundler.stack[i].reqs) :
           ~StartsWith(bundler.stack[i].reqs[j], LUNE_PREFIX)
    /\ ~StartsWith(bundler.last.alias, LUNE_PREFIX)
    /\ \A e \in bundler.aliases_canonical \cup bundler.aliases :
         ~StartsWith(e[1], LUNE_PREFIX)

\* a bundle was returned for /p/s/n.luau, whose source requires "@lune/zz":
\* it has the file and the alias "@k/c" of its other reference
C29_Witness ==
  /\ bundler.pc = "done"
  /\ FileN \in bundler.files_canonical
  /\ \E i \in 1..Len(Source(FileN)) : StartsWith(Source(FileN)[i], LUNE_PREFIX)
  /\ {e[1] : e \in bundler.aliases} = {<<"@", "k", "/", "c">>}

(***************************************************************************)
(* C30: bundle() fails exactly when a file it has to read cannot be read,  *)
(* names that file and returns no bundle.                                  *)
(***************************************************************************)
\* the files process_file was called on and could not read
Unread == bundler.processed \ bundler.files_canonical

\* C30: a run goes on only while every file could be read; bundle() has
\* failed exactly when a file could not be read, the error then names that
\* file and there is no bundle, not even a partial one; a returned bundle has
\* no error
C30_FailsIffUnreadable ==
  /\ bundler.pc = "run" => Unread = {} /\ bundler.err = None
  /\ bundler.pc = "done" => Unread = {} /\ bundler.err = None
  /\ bundler.pc = "failed" =>
       /\ IsSome(bundler.err)
       /\ Unread = {Unwrap(canonicalize(Unwrap(bundler.err)))}
       /\ bundler.files = {} /\ bundler.aliases = {}

\* bundle(m.luau) has failed on its dependency /p/s/c.luau after /p/a.luau
\* and /p/b.luau were read
C30_Witness ==
  /\ bundler.pc = "failed"
  /\ bundler.entry = PathNew(<<"m", ".", "luau">>)
  /\ canonicalize(Unwrap(bundler.err)) = Some(FileC)
  /\ bundler.files_canonical = {FileM, FileA, FileB}

C32_LengthFieldCoversPayload ==
  (codec # Off /\ codec.made) =>
    LET n == Len(codec.bytes)
    IN from_be_bytes(SubSeq(codec.bytes, n - 15, n - 8)) = Len(to_bytes(codec.m)) - 16

(***************************************************************************)
(* C33: a location handle given to require resolves to the handle's own    *)
(* path, which is the path looked up and the cache key.                    *)
(***************************************************************************)
\* the location a handle stands for in a call of thread t: its fixed path,
\* or for the dynamic handle the location of the calling script
HandlePath(ref, t) == IF IsSome(ref.path) THEN Unwrap(ref.path) ELSE t

\* C33: a call whose argument is a location handle has as its key the file
\* found for the handle's own path
C33_HandleResolvesToOwnPath ==
  \A t \in Threads :
    (call[t].pc # "idle" /\ call[t].arg.t = "Script") =>
      LET resolved == LuauModulePath_resolve(HandlePath(call[t].arg, t))
      IN resolved.tag = "File" => call[t].key = Some(resolved.path)

(***************************************************************************)
(* C34: a require served from the cache returns what the require that      *)
(* executed the module returned.                                           *)
(***************************************************************************)
\* C34: when one call has returned the result of the execution it made and
\* another call of the same path has been answered from the entry that
\* execution left in the cache, the two calls returned the same values
C34_CacheHitReturnsSameValues ==
  \A t, u \in Threads :
    (/\ call[t].pc = "done" /\ call[t].via = "load" /\ call[t].res.ok
     /\ call[u].pc = "done" /\ call[u].via = "cache"
     /\ call[u].key = call[t].key
     /\ call[t].res.vals # <<>>
     /\ call[u].res.vals[1] = call[t].res.vals[1])
    => call[u].res.vals = call[t].res.vals

(***************************************************************************)
(* C35: every value of the alias map of a bundle is a key of its file map. *)
(***************************************************************************)
\* C35: in a returned bundle every alias points at a file of the bundle
C35_AliasValuesAreFileKeys ==
  bundler.pc = "done" => \A e \in bundler.aliases : e[2] \in bundler.files

\* the bundle of /q/x/e.luau: the aliases "@v/g" and "@w" point at
\* /x/g.luau, one of its three files
C35_Witness ==
  /\ bundler.pc = "done"
  /\ bundler.aliases = {<< <<"@", "v", "/", "g">>, <<"/", "x", "/", "g", ".", "luau">> >>,
                        << <<"@", "w">>, <<"/", "x", "/", "g", ".", "luau">> >>}
  /\ Cardinality(bundler.files) = 3

(***************************************************************************)
(* C36: the entry path stored in the metadata is a key of the file map.    *)
(***************************************************************************)
\* C36: for every returned bundle the entry path that run computes from the
\* entry file and the Bundler's final base_dir is a key of the file map
C36_EntryPathIsFileKey ==
  bundler.pc = "done" => run_entry_path(bundler.entry, bundler.base_dir) \in bundler.files

\* the bundle of /q/x/e.luau, whose project root was widened from /q/x to /q:
\* the entry path is /x/e.luau
C36_Witness ==
  /\ bundler.pc = "done"
  /\ bundler.base_dir = DirQ
  /\ find_project_root(bundler.entry) = DirX
  /\ run_entry_path(bundler.entry, bundler.base_dir) = <<"/", "x", "/", "e", ".", "luau">>

(***************************************************************************)
(* C37: the alias map agrees with every use of an alias literal, also      *)
(* when configuration files of different directories declare the literal's *)
(* alias with different values.                                            *)
(***************************************************************************)
\* the key under which the bundle holds the file that the reference lit,
\* written in file f, resolves to from the directory of f
AliasTarget(b, f, lit) ==
  LET rr == resolve_require(lit, Parent(f), {}, {})
  IN normalize_path(b.base_dir,
                    Unwrap(canonicalize(Unwrap(find_module_file(Unwrap(rr.path))))))

\* C37: in a returned bundle, the entry of the alias map for an alias
\* literal is the file the literal resolves to from the directory of every
\* bundled file in which it is written
C37_AliasMapAgreesWithEveryUse ==
  bundler.pc = "done" =>
    \A f \in bundler.files_canonical :
      \A lit \in AliasLiteralsUsed(f) :
        \A e \in bundler.aliases :
          e[1] = lit => e[2] = AliasTarget(bundler, f, lit)

(***************************************************************************)
(* C38: a require call resolves its reference against the location of the *)
(* script that makes the call; the stored caller path is read and cleared  *)
(* by the call that stored it, before the call is suspended.               *)
(***************************************************************************)
\* C38: a step in which thread t calls require begins the call that
\* require_fn makes of the argument with the caller path of t itself, and at
\* the end of every step, where other threads can run, no caller path is
\* stored
C38_CallUsesOwnCallerPath ==
  [][/\ caller_path_key' = None
     /\ \A t \in Threads :
          (Starts(t) /\ call'[t] # call[t]) =>
             LET o == require_fn(call'[t].arg, get_caller_path(t))
             IN /\ call'[t].key = o.key
                /\ call'[t].via = o.via
                /\ call'[t].read = o.read
                /\ call'[t].pc = "done" => call'[t].res = o.res]_<<vars, others>>

\* the scripts /p/m.luau and /p/s/n.luau have each called require with a
\* relative reference; both calls are suspended, each on the file its
\* reference names from the directory of its own script
C38_Witness ==
  /\ caller_path_key = None
  /\ call[FileM].pc \in {"read", "wait"}
  /\ call[FileM].arg = Str(<<".", "/", "a">>)
  /\ call[FileM].key = Some(FileA)
  /\ call[FileN].pc \in {"read", "wait"}
  /\ call[FileN].arg = Str(<<".", ".", "/", "s", "/", "c">>)
  /\ call[FileN].key = Some(FileC)
====
